---- MODULE Spec2Model ----
(***************************************************************************)
(* Model of cove. The room engine (cove-tui/src/room.rs): the driver task  *)
(* Room::run with its receive loop, the RoomState handlers on_rpl and      *)
(* on_ntf, the tasks that issue commands through RoomState::cmd, and the   *)
(* dead man's switch of Room. The vault (src/vault.rs): the worker thread  *)
(* and the holders of the Vault. The tree view (src/ui/chat/tree.rs): key  *)
(* events and sent. The store types (src/store.rs): Tree, Path and the      *)
(* chronological queries of MsgStore. The rooms list (cove/src/ui/rooms.rs)*)
(* with its dialogs and its sort, and the main loop of the Ui (src/ui.rs). *)
(* Each component has its own specification; the variables of the others   *)
(* stay as constructed.                                                    *)
(*                                                                         *)
(* Option<T> is modelled as a sequence: None is <<>>, Some(x) is <<x>>.    *)
(* Enum values are tuples of strings, the variant name first.              *)
(***************************************************************************)
EXTENDS Integers, Sequences, FiniteSets, TLC

\* ------------------------------------------------------------------ bounds

\* Connections the driver may establish in one run.
MaxConns == 2
\* Ids a connection may allocate (caps Connected.next_id).
MaxIds == 2
\* Requests the holders of a Vault may send in one run.
MaxRequests == 3
\* Characters the editor of a tree view may hold.
MaxText == 2
\* Messages in the list given to Tree::new.
MaxMsgs == 3
\* Segments a Path may grow to.
MaxSegments == 4
\* The largest id of a message given to add_msgs.
MaxMsgId == 5
\* UiEvents that may wait in the channel of the Ui.
MaxEvents == 2

\* ------------------------------------------------------------------ values

None == <<>>
Some(x) == <<x>>
IsSome(o) == o # <<>>
Unwrap(o) == o[1]

\* The tasks that go through RoomState::cmd: task 0 runs
\* select_room_and_identify, the others call cmd directly.
Sri == 0
Callers == {1}
Tasks == {Sri} \cup Callers

Reasons == {"no such room", "room closed"}

\* The holders of a clone of the Vault.
Clients == {1, 2}

\* cove_core::Session, reduced to the two fields the room state looks at.
Session(id, name) == [id |-> id, name |-> name]
Yous == {Session("s1", "u")}
OthersLists == {<<>>, <<Session("s2", "a"), Session("s2", "b")>>}

\* enum Status
Connecting == <<"Connecting">>
Reconnecting == <<"Reconnecting">>
Identifying == <<"Identifying">>
Nominal == <<"Nominal">>
Stopped(reason) == <<"Stopped", reason>>
IsStopped(s) == s[1] = "Stopped"

\* enum StopReason
CouldNotConnect == <<"CouldNotConnect">>
InvalidRoom(reason) == <<"InvalidRoom", reason>>
SomethingWentWrong == <<"SomethingWentWrong">>

\* enum RoomVerified, inside the Option that Room::run keeps
Yes == <<"Yes">>
No(reason) == <<"No", reason>>

\* enum Rpl: the reply family first, then the variant and its fields.
RoomSuccess == <<"Room", "Success">>
RoomInvalid(reason) == <<"Room", "InvalidRoom", reason>>
IdentifySuccess(you, others) == <<"Identify", "Success", you, others>>
IdentifyInvalidNick == <<"Identify", "InvalidNick">>
NickSuccess(you) == <<"Nick", "Success", you>>
WhoRpl(you, others) == <<"Who", you, others>>

Rpls ==
    {RoomSuccess, IdentifyInvalidNick}
    \cup {RoomInvalid(r) : r \in Reasons}
    \cup {IdentifySuccess(y, o) : y \in Yous, o \in OthersLists}

\* enum Ntf: the variant, then the session it is about (for Send, the sender
\* of the message).
Ntf(kind, who) == <<kind, who>>
NtfKinds == {"Join", "Nick", "Part", "Send"}
NtfWhos == {Session("s2", "c"), Session("s3", "c")}
Ntfs == {Ntf(k, w) : k \in NtfKinds, w \in NtfWhos}

\* Commands a direct caller sends; the reply family it asks for has the same
\* name. RoomState::identify is such a caller.
CallerCmds == {"Identify"}

\* The command and reply packets the server may put on the wire of a
\* connection; its notification packets are <<"Ntf", ntf>> for ntf in Ntfs.
Packets ==
    {<<"Cmd">>}
    \cup {<<"Rpl", id, rpl>> : id \in 0..(MaxIds - 1), rpl \in Rpls}

\* The HashMap built by `.map(|session| (session.id, session.clone())).collect()`:
\* a later entry with the same id replaces an earlier one.
LastIndex(list, id) ==
    CHOOSE k \in DOMAIN list :
        /\ list[k].id = id
        /\ \A j \in DOMAIN list : list[j].id = id => j <= k
CollectById(list) ==
    [id \in {list[k].id : k \in DOMAIN list} |-> list[LastIndex(list, id)]]

\* ------------------------------------------------------------------- state

VARIABLES
    initial_nick,   \* RoomState.initial_nick
    status,         \* RoomState.status
    connected,      \* RoomState.connected: Option<Connected>
    present,        \* RoomState.present: Option<Present>
    room_verified,  \* the local of Room::run
    run_pc,         \* where Room::run stands
    conns,          \* connections established so far; the newest is the live one
    end_cause,      \* what ended the last connection attempt or connection
    task,           \* per task: position, the call it waits for, its oneshot channel
    frames,         \* ids of the frames Connected.tx accepted, in write order
    allocs,         \* ids taken from Connected.next_id, in allocation order
    packet,         \* Room::receive: the packet rx.recv() yielded, not yet handled
    room_ok,        \* history: on_rpl has handled a Room(Success) reply
    handle,         \* the Room value with its dead_mans_switch: held or dropped
    \* vault.rs
    requests,       \* the unbounded request channel: requests sent, not yet received
    issued,         \* requests handed to tx.send so far; the next one gets issued + 1
    enqueued,       \* history: the requests the channel accepted
    released,       \* requests whose oneshot Sender was used or dropped
    worker_pc,      \* where the worker thread stands in run
    worker_req,     \* the request the worker has received and is handling
    worker_drops,   \* Close: what the worker has still to drop before the break
    db,             \* the sqlite Connection: open or closed
    db_log,         \* history: <<"start", n, receiver alive>> when the worker takes
                    \* request n, <<"end", n, result>> when its statements returned
    client,         \* per holder of a Vault clone: its position and the request it awaits
    \* ui/chat/tree.rs
    cursor,         \* InnerTreeViewState.cursor
    last_cursor,    \* InnerTreeViewState.last_cursor
    correction,     \* InnerTreeViewState.correction
    editor,         \* InnerTreeViewState.editor: its text, a sequence of characters
    last_call,      \* history: the last call on the view, its argument and its result
    pending,        \* history: coming_from and parent of a Composed not yet answered by sent
    may_compose     \* history: some key event was handled with can_compose = true

roomVars ==
    <<initial_nick, status, connected, present, room_verified, run_pc, conns,
      end_cause, task, frames, allocs, packet, room_ok, handle>>

\* The variables of the other components, which no step of the room touches.
vaultVars ==
    <<requests, issued, enqueued, released, worker_pc, worker_req, worker_drops,
      db, db_log, client>>

viewVars ==
    <<cursor, last_cursor, correction, editor, last_call, pending, may_compose>>

VARIABLES
    tree_args,      \* the arguments of the call of Tree::new, for the claims
    tree,           \* Option<Tree>
    size_call,      \* Option: the id given to Tree::subtree_size and the outcome
    path,           \* Option<Path>
    path_args,      \* the segments given to Path::new and push, for the claims
    path_pc,        \* "run", or "panicked" after a failed assertion
    persisted,      \* the ids of the messages in the MsgStore
    visited,        \* the ids a chronological walk has returned so far
    walk_pc         \* "idle", "walking", or "done" when the walk got None

treeVars == <<tree_args, tree, size_call>>
pathVars == <<path, path_args, path_pc>>
msgVars == <<persisted, visited, walk_pc>>
storeVars == <<treeVars, pathVars, msgVars>>

VARIABLES
    rooms_pc,       \* "new" before Rooms::new, then "run", or "panicked"
    config,         \* Option<Config>: offline and euph.rooms with autojoin
    state,          \* Rooms.state
    rows,           \* Rooms.list: the rows it was last built with
    selected,       \* Rooms.list: the selected row, Option<String>
    order,          \* Rooms.order
    euph_rooms,     \* Rooms.euph_rooms: name -> EuphRoom
    vault_rooms,    \* the names of the rooms the vault has
    rooms_call      \* the last call of a method of Rooms, for the claims: new,
                    \* widget, euph, or input with confirm, abort or another key

roomsVars ==
    <<rooms_pc, config, state, rows, selected, order, euph_rooms, vault_rooms,
      rooms_call>>

VARIABLES
    rendered        \* Option of the rows render_rows made and their order

listVars == <<rendered>>

VARIABLES
    mode,           \* Ui.mode
    ui_pc,          \* where run_main is: "render", "recv", "batch", or returned
    event_rx,       \* the UiEvents sent and not yet received
    rooms_view,     \* the state of Ui.rooms, as far as the Ui sees it
    forwarded       \* Option of the view and key of the last event, if forwarded

uiVars == <<mode, ui_pc, event_rx, rooms_view, forwarded>>

VARIABLES
    crossterm_lock,  \* the FairMutex: its owner and the threads parked on it
    strong,          \* the holders of a strong reference to crossterm_lock
    poll_pc,         \* where poll_crossterm_events is
    main_pc,         \* where run_main is
    ui_run,         \* Ui::run: in its select, returned, or dropped
    queued           \* the number of events in the channel of the Ui
taskVars == <<crossterm_lock, strong, poll_pc, main_pc, ui_run, queued>>

VARIABLES
    state_mutex,    \* the Mutex around RoomState: its owner and its queue
    cmd_pc,         \* where each call of cmd is
    drv_pc,         \* where Room::run is
    has_conn,       \* RoomState.connected is Some
    waiters,        \* the callers with a waiter in connected.replies
    delivered,      \* the callers whose waiter was completed with a reply
    rx_rpl          \* the caller the reply in the hand of receive is for, or 0
mutexVars == <<state_mutex, cmd_pc, drv_pc, has_conn, waiters, delivered, rx_rpl>>

\* The variables of the other components, which no step of the room touches,
\* those no step of the vault touches, and those no step of the view touches.
nonRoomVars ==
    <<vaultVars, viewVars, storeVars, roomsVars, listVars, uiVars, taskVars,
      mutexVars>>
nonVaultVars ==
    <<roomVars, viewVars, storeVars, roomsVars, listVars, uiVars, taskVars,
      mutexVars>>
nonViewVars ==
    <<roomVars, vaultVars, storeVars, roomsVars, listVars, uiVars, taskVars,
      mutexVars>>
nonStoreVars ==
    <<roomVars, vaultVars, viewVars, roomsVars, listVars, uiVars, taskVars,
      mutexVars>>
nonRoomsVars ==
    <<roomVars, vaultVars, viewVars, storeVars, listVars, uiVars, taskVars,
      mutexVars>>
nonListVars ==
    <<roomVars, vaultVars, viewVars, storeVars, roomsVars, uiVars, taskVars,
      mutexVars>>
nonUiVars ==
    <<roomVars, vaultVars, viewVars, storeVars, roomsVars, listVars, taskVars,
      mutexVars>>

nonTaskVars ==
    <<roomVars, vaultVars, viewVars, storeVars, roomsVars, listVars, uiVars,
      mutexVars>>
nonMutexVars ==
    <<roomVars, vaultVars, viewVars, storeVars, roomsVars, listVars, uiVars,
      taskVars>>

vars ==
    <<roomVars, vaultVars, viewVars, storeVars, roomsVars, listVars, uiVars,
      taskVars, mutexVars>>

\* struct Connected; tx is the number of the connection the handle writes to,
\* replies maps each id with a registered waiter to the task that waits.
Connected(tx, next_id, replies) ==
    [tx |-> tx, next_id |-> next_id, replies |-> replies]

\* Replies::new
NoReplies == [id \in {} |-> Sri]

IdleTask == [pc |-> "idle", cmd |-> "", tx |-> 0, id |-> 0, chan |-> None, result |-> None]

\* Room::new: the fresh RoomState and the spawned run task at its first line.
Init ==
    /\ initial_nick \in {None, Some("u")}
    /\ status = Connecting
    /\ connected = None
    /\ present = None
    /\ room_verified = None
    /\ run_pc = "connect"
    /\ conns = 0
    /\ end_cause = "none"
    /\ task = [t \in Tasks |-> IdleTask]
    /\ frames = <<>>
    /\ allocs = <<>>
    /\ packet = None
    /\ room_ok = FALSE
    /\ handle = "held"


\* ------------------------------------------------- reply correlator (Replies)

\* Replies::wait_for: register a waiter under id.
WaitFor(replies, id, t) ==
    [k \in DOMAIN replies \cup {id} |-> IF k = id THEN t ELSE replies[k]]

\* Replies::complete, the map side: the waiter registered under key is removed.
RemoveWaiter(replies, key) ==
    [k \in DOMAIN replies \ {key} |-> replies[k]]

\* The oneshot channel of a call: empty, holding the reply that was sent into
\* it together with the id of the packet that carried the reply, or closed
\* because its sender was dropped with the Replies map.
Delivered(pid, rpl) == <<"rpl", pid, rpl>>
Closed == <<"closed">>

\* The receiver of the sender stored under key on connection tx is alive
\* while the task that made that call still awaits it.
Awaits(tk, t, tx, key) ==
    /\ tk[t].pc = "waiting"
    /\ tk[t].tx = tx
    /\ tk[t].id = key
    /\ tk[t].chan = None

\* Replies::complete, the channel side: the reply goes to the waiter stored
\* under key, if there is one and it still listens; otherwise it is dropped.
Complete(tk, cn, key, pid, rpl) ==
    IF key \in DOMAIN cn.replies /\ Awaits(tk, cn.replies[key], cn.tx, key)
    THEN [tk EXCEPT ![cn.replies[key]].chan = Delivered(pid, rpl)]
    ELSE tk

\* Dropping a Connected drops its Replies and with it every sender: each call
\* still waiting on it finds its channel closed.
DropConnected(tk, old) ==
    IF old = None THEN tk
    ELSE [t \in Tasks |->
            IF /\ tk[t].id \in DOMAIN Unwrap(old).replies
               /\ Unwrap(old).replies[tk[t].id] = t
               /\ Awaits(tk, t, Unwrap(old).tx, tk[t].id)
            THEN [tk[t] EXCEPT !.chan = Closed]
            ELSE tk[t]]

\* ConnTx::send succeeds while the connection the handle belongs to is alive,
\* that is while Room::run still drives its receive and maintenance futures.
SendOk(cn) == run_pc = "receive" /\ cn.tx = conns

\* --------------------------------------------------------------- Room::run

\* Mutant of NewConnected: the id counter is carried over from the Connected
\* that is replaced.
NewConnectedKeepsCounter(tx) ==
    Connected(tx, IF IsSome(connected) THEN Unwrap(connected).next_id ELSE 0, NoReplies)

\* The Connected stored for a fresh connection.
NewConnected(tx) == Connected(tx, 0, NoReplies)

\* connect() returned Ok: the new Connected replaces whatever was stored, and
\* the task enters the select over maintenance and receive.
ConnectOk ==
    /\ run_pc = "connect"
    /\ conns < MaxConns
    /\ conns' = conns + 1
    /\ connected' = Some(NewConnected(conns + 1))
    /\ task' = DropConnected(task, connected)
    /\ run_pc' = "receive"
    /\ end_cause' = "none"
    /\ packet' = None
    /\ frames' = <<>>
    /\ allocs' = <<>>
    /\ UNCHANGED <<nonRoomVars, handle, initial_nick, status, present, room_verified, room_ok>>

\* connect() returned Err.
ConnectErr ==
    /\ run_pc = "connect"
    /\ room_verified' =
          IF room_verified = None THEN Some(No(CouldNotConnect)) ELSE room_verified
    /\ run_pc' = "cleanup"
    /\ end_cause' = "connect_err"
    /\ UNCHANGED <<nonRoomVars, handle, initial_nick, status, connected, present, conns, task, frames,
                   allocs, packet, room_ok>>

\* The select ends without a reply being refused: rx.recv() failed, the
\* server closed the stream, or the maintenance future returned.
ConnEnd ==
    /\ run_pc = "receive"
    /\ end_cause' = "transport"
    /\ run_pc' = "cleanup"
    /\ packet' = None
    /\ UNCHANGED <<nonRoomVars, handle, initial_nick, status, connected, present, room_verified, conns,
                   task, frames, allocs, room_ok>>

\* Mutant of CleanupStatus: a room whose verification is unknown is retried.
CleanupStatusRetriesUnknown(rv) ==
    IF rv = Some(Yes) \/ rv = None THEN Reconnecting ELSE Stopped(Unwrap(rv)[2])

\* "Clean up and maybe reconnect": the status the match stores.
CleanupStatus(rv) ==
    IF rv = Some(Yes) THEN Reconnecting
    ELSE IF rv = None THEN Stopped(SomethingWentWrong)
    ELSE Stopped(Unwrap(rv)[2])

\* ... and whether the loop goes round again or breaks.
CleanupLoops(rv) == rv = Some(Yes)

Cleanup ==
    /\ run_pc = "cleanup"
    /\ status' = CleanupStatus(room_verified)
    /\ run_pc' = IF CleanupLoops(room_verified) THEN "connect" ELSE "done"
    /\ UNCHANGED <<nonRoomVars, handle, initial_nick, connected, present, room_verified, conns, task,
                   end_cause, frames, allocs, packet, room_ok>>

\* ------------------------------------------------- Room: dead man's switch

\* The spawned task has ended: Room::run returned, or the select of Room::new
\* completed on the dead man's switch and dropped the run future.
Terminated == run_pc \in {"done", "cancelled"}

\* The owner drops the Room, and with it the Sender half of dead_mans_switch.
DropRoom ==
    /\ handle = "held"
    /\ handle' = "dropped"
    /\ UNCHANGED <<nonRoomVars, initial_nick, status, connected, present,
                   room_verified, run_pc, conns, end_cause, task, frames, allocs,
                   packet, room_ok>>

\* Mutant of SwitchResolved: the select does not watch the switch.
SwitchNeverResolves == FALSE

\* `_ = rx => {}`: the receiver of the switch resolves once the sender is gone.
SwitchResolved == handle = "dropped"

\* The select of Room::new completes on the switch branch: the run future is
\* dropped at whichever await it stands, and with it its locals (the packet in
\* hand, the receiving half and the maintenance of the connection).
Cancel ==
    /\ SwitchResolved
    /\ ~Terminated
    /\ run_pc' = "cancelled"
    /\ packet' = None
    /\ UNCHANGED <<nonRoomVars, handle, initial_nick, status, connected, present,
                   room_verified, conns, end_cause, task, frames, allocs, room_ok>>

\* ------------------------------------------------------- RoomState::on_rpl

\* Mutant of OnRplKey: replies are matched by position, the oldest waiter
\* gets the reply.
OnRplKeyOldest(cn, id) ==
    IF DOMAIN cn.replies = {} THEN id
    ELSE CHOOSE k \in DOMAIN cn.replies : \A j \in DOMAIN cn.replies : k <= j

\* The key under which on_rpl completes a waiter: the id of the packet.
OnRplKey(cn, id) == id

\* The match of on_rpl on the reply: the new present ...
OnRplPresent(p, rpl) ==
    IF rpl[1] = "Identify" /\ rpl[2] = "Success"
    THEN Some([session |-> rpl[3], others |-> CollectById(rpl[4])])
    ELSE IF rpl[1] = "Nick" /\ rpl[2] = "Success" /\ IsSome(p)
    THEN Some([Unwrap(p) EXCEPT !.session = rpl[3]])
    ELSE IF rpl[1] = "Who" /\ IsSome(p)
    THEN Some([session |-> rpl[2], others |-> CollectById(rpl[3])])
    ELSE p

\* ... and the new room_verified.
OnRplVerified(rv, rpl) == IF rpl = RoomSuccess THEN Some(Yes) ELSE rv

\* Room(InvalidRoom) makes on_rpl bail before it reaches replies.complete.
OnRplBails(rpl) == rpl[1] = "Room" /\ rpl[2] = "InvalidRoom"

\* ------------------------------------------------------- RoomState::on_ntf

\* HashMap::insert and HashMap::remove on present.others.
Insert(others, who) ==
    [k \in DOMAIN others \cup {who.id} |-> IF k = who.id THEN who ELSE others[k]]
\* Mutant of Remove: a Part empties the map.
RemoveAll(others, id) == [k \in {} |-> id]

Remove(others, id) == [k \in DOMAIN others \ {id} |-> others[k]]

\* The match of on_ntf: Join and Nick insert the session under its id, Part
\* removes the id, each only while present is Some; Send does nothing yet.
OnNtf(p, ntf) ==
    IF p = None THEN p
    ELSE IF ntf[1] \in {"Join", "Nick"}
    THEN Some([Unwrap(p) EXCEPT !.others = Insert(@, ntf[2])])
    ELSE IF ntf[1] = "Part"
    THEN Some([Unwrap(p) EXCEPT !.others = Remove(@, ntf[2].id)])
    ELSE p

\* ---------------------------------------------------------- Room::receive

\* Room::receive: rx.recv().await yields the next packet of the server.
Recv ==
    /\ run_pc = "receive"
    /\ packet = None
    /\ \E p \in Packets : packet' = Some(p)
    /\ UNCHANGED <<nonRoomVars, handle, initial_nick, status, connected, present, room_verified, run_pc,
                   conns, end_cause, task, frames, allocs, room_ok>>

\* Room::receive: rx.recv().await yields a notification of the server.
RecvNtf ==
    /\ run_pc = "receive"
    /\ packet = None
    /\ \E ntf \in Ntfs : packet' = Some(<<"Ntf", ntf>>)
    /\ UNCHANGED <<nonRoomVars, handle, initial_nick, status, connected, present,
                   room_verified, run_pc, conns, end_cause, task, frames, allocs,
                   room_ok>>

\* Room::receive: the match on the packet, run once the state mutex is held.
\* A Cmd packet is ignored, a Ntf goes through on_ntf, a Rpl goes through
\* on_rpl, whose error ends receive and with it the select of Room::run.
Handle ==
    /\ run_pc = "receive"
    /\ IsSome(packet)
    /\ packet' = None
    /\ IF Unwrap(packet)[1] = "Cmd"
       THEN UNCHANGED <<status, connected, present, room_verified, run_pc,
                        end_cause, task>>
       ELSE IF Unwrap(packet)[1] = "Ntf"
       THEN /\ present' = OnNtf(present, Unwrap(packet)[2])
            /\ UNCHANGED <<status, connected, room_verified, run_pc, end_cause, task>>
       ELSE LET id == Unwrap(packet)[2]
                rpl == Unwrap(packet)[3]
            IN IF OnRplBails(rpl)
               THEN /\ status' = Stopped(InvalidRoom(rpl[3]))
                    /\ run_pc' = "cleanup"
                    /\ end_cause' = "invalid_room"
                    /\ UNCHANGED <<connected, present, room_verified, task>>
               ELSE /\ present' = OnRplPresent(present, rpl)
                    /\ room_verified' = OnRplVerified(room_verified, rpl)
                    /\ task' =
                          IF IsSome(connected)
                          THEN Complete(task, Unwrap(connected),
                                        OnRplKey(Unwrap(connected), id), id, rpl)
                          ELSE task
                    /\ connected' =
                          IF IsSome(connected)
                          THEN Some([Unwrap(connected) EXCEPT !.replies =
                                  RemoveWaiter(@, OnRplKey(Unwrap(connected), id))])
                          ELSE connected
                    /\ UNCHANGED <<status, run_pc, end_cause>>
    /\ room_ok' = (room_ok \/ (Unwrap(packet)[1] = "Rpl" /\ Unwrap(packet)[3] = RoomSuccess))
    /\ UNCHANGED <<nonRoomVars, handle, initial_nick, conns, frames, allocs>>

\* ---------------------------------------------------------- RoomState::cmd

\* What cmd returns: Ok with the reply (of which the id of the packet that
\* carried it is kept), or an Error.
Ok(pid) == <<"Ok", pid>>
Err(e) == <<"Err", e>>

\* A task back from cmd with result r. What select_room_and_identify returns
\* is read by nobody, so it is not kept.
Returned(t, r) == IF t = Sri THEN IdleTask ELSE [IdleTask EXCEPT !.result = Some(r)]

\* Mutant of NextIdAfter: the increment is missing.
NextIdAfterSame(id) == id

\* The counter after an id was taken.
NextIdAfter(id) == id + 1

\* The critical section of cmd for task t sending command kind: pc is where
\* the task stands if cmd goes on to await the reply.
CmdEnter(t, kind) ==
    IF connected = None
    THEN /\ task' = [task EXCEPT ![t] =
                       Returned(t, Err("NotConnected"))]
         /\ UNCHANGED <<connected, frames, allocs>>
    ELSE LET cn == Unwrap(connected)
             id == cn.next_id
         IN /\ id < MaxIds
            /\ connected' =
                  Some(Connected(cn.tx, NextIdAfter(id), WaitFor(cn.replies, id, t)))
            /\ allocs' = Append(allocs, id)
            /\ IF SendOk(cn)
               THEN /\ frames' = Append(frames, id)
                    /\ task' = [task EXCEPT ![t] =
                          [pc |-> "waiting", cmd |-> kind, tx |-> cn.tx, id |-> id,
                           chan |-> None, result |-> None]]
               ELSE /\ frames' = frames
                    /\ task' = [task EXCEPT ![t] =
                          Returned(t, Err("Conn"))]

\* What pending_reply.get().await can yield for the call task t waits for.
Outcomes(t) ==
    IF task[t].chan = None THEN {Err("TimedOut")}
    ELSE IF task[t].chan = Closed THEN {Err("Canceled")}
    ELSE {Ok(task[t].chan[2])}

\* Mutant of TryInto: every reply converts.
TryIntoAny(t, r) == r

\* rpl.try_into(): the reply converts when it is of the family asked for.
TryInto(t, r) ==
    IF r[1] = "Ok" /\ task[t].chan[3][1] # task[t].cmd
    THEN Err("IncorrectReplyType")
    ELSE r

\* A direct caller enters cmd.
Cmd(t) ==
    /\ t \in Callers
    /\ task[t].pc = "idle"
    /\ \E kind \in CallerCmds : CmdEnter(t, kind)
    /\ UNCHANGED <<nonRoomVars, handle, initial_nick, status, present, room_verified, run_pc, conns,
                   end_cause, packet, room_ok>>

\* cmd returns to a direct caller.
CmdReturn(t) ==
    /\ t \in Callers
    /\ task[t].pc = "waiting"
    /\ \E r \in Outcomes(t) :
          task' = [task EXCEPT ![t] = Returned(t, TryInto(t, r))]
    /\ UNCHANGED <<nonRoomVars, handle, initial_nick, status, connected, present, room_verified, run_pc,
                   conns, end_cause, frames, allocs, packet, room_ok>>

\* Mutant of CmdDrop: dropping one future of cmd tears down the calls of
\* every task.
CmdDropAll(t) ==
    /\ t \in Callers
    /\ task[t].pc = "waiting"
    /\ task' = [u \in Tasks |-> IdleTask]
    /\ UNCHANGED <<nonRoomVars, handle, initial_nick, status, connected, present,
                   room_verified, run_pc, conns, end_cause, frames, allocs, packet,
                   room_ok>>

\* The caller stops awaiting: the future of cmd is dropped at
\* `pending_reply.get().await`, and with it the receiving end of the reply.
CmdDrop(t) ==
    /\ t \in Callers
    /\ task[t].pc = "waiting"
    /\ task' = [task EXCEPT ![t] = IdleTask]
    /\ UNCHANGED <<nonRoomVars, handle, initial_nick, status, connected, present,
                   room_verified, run_pc, conns, end_cause, frames, allocs, packet,
                   room_ok>>

\* ------------------------------------- RoomState::select_room_and_identify

\* `Self::cmd(&state, RoomCmd { name })` up to the await of the reply.
SriRoomCmd ==
    /\ task[Sri].pc = "idle"
    /\ CmdEnter(Sri, "Room")
    /\ UNCHANGED <<nonRoomVars, handle, initial_nick, status, present, room_verified, run_pc, conns,
                   end_cause, packet, room_ok>>

\* The Room command returns and the match on its reply runs: Success goes on
\* to identify when an initial nick is set, InvalidRoom stops the room.
SriRoomReturn ==
    /\ task[Sri].pc = "waiting"
    /\ task[Sri].cmd = "Room"
    /\ \E r \in Outcomes(Sri) :
        LET res == TryInto(Sri, r)
            rpl == task[Sri].chan[3]
        IN IF res[1] = "Ok" /\ rpl[2] = "InvalidRoom"
           THEN /\ status' = Stopped(InvalidRoom(rpl[3]))
                /\ connected' = None
                /\ task' = [DropConnected(task, connected) EXCEPT
                               ![Sri] = IdleTask]
           ELSE /\ task' = [task EXCEPT ![Sri] =
                      IF res[1] = "Ok" /\ IsSome(initial_nick)
                      THEN [IdleTask EXCEPT !.pc = "identify"]
                      ELSE IdleTask]
                /\ UNCHANGED <<status, connected>>
    /\ UNCHANGED <<nonRoomVars, handle, initial_nick, present, room_verified, run_pc, conns, end_cause,
                   frames, allocs, packet, room_ok>>

\* RoomState::identify: `Self::cmd(state, IdentifyCmd { nick, identity })` up
\* to the await of the reply.
SriIdentifyCmd ==
    /\ task[Sri].pc = "identify"
    /\ CmdEnter(Sri, "Identify")
    /\ UNCHANGED <<nonRoomVars, handle, initial_nick, status, present, room_verified, run_pc, conns,
                   end_cause, packet, room_ok>>

\* The Identify command returns; its reply is not looked at.
SriIdentifyReturn ==
    /\ task[Sri].pc = "waiting"
    /\ task[Sri].cmd = "Identify"
    /\ \E r \in Outcomes(Sri) :
          task' = [task EXCEPT ![Sri] = IdleTask]
    /\ UNCHANGED <<nonRoomVars, handle, initial_nick, status, connected, present, room_verified, run_pc,
                   conns, end_cause, frames, allocs, packet, room_ok>>

Next ==
    \/ ConnectOk
    \/ ConnectErr
    \/ Recv
    \/ Handle
    \/ ConnEnd
    \/ Cleanup
    \/ \E t \in Callers : Cmd(t)
    \/ \E t \in Callers : CmdReturn(t)
    \/ \E t \in Callers : CmdDrop(t)
    \/ SriRoomCmd
    \/ SriRoomReturn
    \/ SriIdentifyCmd
    \/ SriIdentifyReturn

\* --------------------------------------------------------------- vault.rs

\* Requests are numbered in the order tx.send was called with them.
Request(n, kind) == [n |-> n, kind |-> kind]
RequestKinds == {"Close", "Gc", "Euph"}

IdleClient == [pc |-> "idle", n |-> 0, kind |-> ""]

\* launch_from_connection: the channel is created, the worker thread is
\* spawned on the open connection, and the Vault is handed out (and cloned).
VaultInit ==
    /\ requests = <<>>
    /\ issued = 0
    /\ enqueued = {}
    /\ released = {}
    /\ worker_pc = "recv"
    /\ worker_req = None
    /\ worker_drops = <<>>
    /\ db = "open"
    /\ db_log = <<>>
    /\ client = [c \in Clients |-> IdleClient]


\* The numbers of a sequence of requests.
Numbers(q) == {q[i].n : i \in DOMAIN q}

\* The oneshot Receiver of request n is alive while its caller awaits it.
RxAlive(n) == \E c \in Clients : client[c].pc = "await" /\ client[c].n = n

\* Vault::close, Vault::gc and the request methods of EuphVault: a oneshot
\* channel is made, the request with its Sender goes to the worker, and the
\* caller awaits the Receiver. Once the worker has let go of its end of the
\* channel, tx.send fails and the request is dropped on the spot.
VaultSend(c, kind) ==
    /\ client[c].pc = "idle"
    /\ issued < MaxRequests
    /\ issued' = issued + 1
    /\ client' = [client EXCEPT ![c] = [pc |-> "await", n |-> issued + 1, kind |-> kind]]
    /\ IF worker_pc # "stopped"
       THEN /\ requests' = Append(requests, Request(issued + 1, kind))
            /\ enqueued' = enqueued \cup {issued + 1}
            /\ released' = released
       ELSE /\ released' = released \cup {issued + 1}
            /\ UNCHANGED <<requests, enqueued>>
    /\ UNCHANGED <<nonVaultVars, worker_pc, worker_req, worker_drops, db, db_log>>

\* `rx.await` resolves once the worker has used or dropped the Sender.
VaultReturn(c) ==
    /\ client[c].pc = "await"
    /\ client[c].n \in released
    /\ client' = [client EXCEPT ![c] = IdleClient]
    /\ UNCHANGED <<nonVaultVars, requests, issued, enqueued, released, worker_pc,
                   worker_req, worker_drops, db, db_log>>

\* The caller drops the future it awaits, and with it the Receiver.
VaultDropFuture(c) ==
    /\ client[c].pc = "await"
    /\ client' = [client EXCEPT ![c] = IdleClient]
    /\ UNCHANGED <<nonVaultVars, requests, issued, enqueued, released, worker_pc,
                   worker_req, worker_drops, db, db_log>>

\* A holder drops its clone of the Vault, one Sender of the request channel.
VaultDrop(c) ==
    /\ client[c].pc = "idle"
    /\ client' = [client EXCEPT ![c] = [IdleClient EXCEPT !.pc = "gone"]]
    /\ UNCHANGED <<nonVaultVars, requests, issued, enqueued, released, worker_pc,
                   worker_req, worker_drops, db, db_log>>

\* Mutant of TakeIndex: the worker takes the newest request.
TakeIndexNewest(q) == Len(q)

\* rx.blocking_recv() yields the oldest request of the channel ...
TakeIndex(q) == 1

\* Mutant of Rest: the request received stays in the channel.
RestKeeps(q, i) == q

\* ... and takes it out of the channel.
Rest(q, i) == [j \in 1..(Len(q) - 1) |-> IF j < i THEN q[j] ELSE q[j + 1]]

\* `while let Some(request) = rx.blocking_recv()`: the worker receives a
\* request and enters the match arm of its kind.
WorkerRecv ==
    /\ worker_pc = "recv"
    /\ requests # <<>>
    /\ worker_req' = Some(requests[TakeIndex(requests)])
    /\ requests' = Rest(requests, TakeIndex(requests))
    /\ worker_pc' = "perform"
    /\ db_log' = Append(db_log, <<"start", requests[TakeIndex(requests)].n,
                                   RxAlive(requests[TakeIndex(requests)].n)>>)
    /\ UNCHANGED <<nonVaultVars, issued, enqueued, released, worker_drops, db, client>>

\* Mutant of CloseDrops: the Sender is dropped before the Connection.
CloseDropsSenderFirst == <<"tx", "conn">>

\* The Close arm after its statement: `drop(conn); drop(tx);`.
CloseDrops == <<"conn", "tx">>

\* Mutant of AfterStatement: a database error ends the worker.
AfterStatementFailFast(kind, res) ==
    IF res = "err" THEN "stopped" ELSE IF kind = "Close" THEN "drops" ELSE "recv"

\* Where the worker goes after the statements of a request returned res: an
\* Err is logged and nothing else; the Close arm goes on to its drops and the
\* break, the other arms go round the loop.
AfterStatement(kind, res) == IF kind = "Close" THEN "drops" ELSE "recv"

\* EuphRequest::perform hands its result to the Sender of the request: the
\* Sender is used up, and a send that finds the Receiver gone is ignored.
PerformReplies(rel, n) == rel \cup {n}

\* The statements of the request run on the Connection and return Ok or Err:
\* "PRAGMA optimize" for Close, "ANALYZE; VACUUM;" for Gc, r.perform(&mut conn)
\* for Euph. Gc drops its Sender, perform uses it.
WorkerPerform ==
    /\ worker_pc = "perform"
    /\ \E res \in {"ok", "err"} :
         LET r == Unwrap(worker_req)
         IN /\ db_log' = Append(db_log, <<"end", r.n, res>>)
            /\ worker_pc' = AfterStatement(r.kind, res)
            /\ IF r.kind = "Close"
               THEN /\ worker_drops' = CloseDrops
                    /\ UNCHANGED <<worker_req, released>>
               ELSE /\ released' = IF r.kind = "Euph"
                                     THEN PerformReplies(released, r.n)
                                     ELSE released \cup {r.n}
                    /\ worker_req' = None
                    /\ worker_drops' = worker_drops
    /\ UNCHANGED <<nonVaultVars, requests, issued, enqueued, db, client>>

\* One drop of the Close arm.
WorkerDrop ==
    /\ worker_pc = "drops"
    /\ worker_drops # <<>>
    /\ worker_drops' = Tail(worker_drops)
    /\ IF Head(worker_drops) = "conn"
       THEN db' = "closed" /\ released' = released
       ELSE db' = db /\ released' = released \cup {Unwrap(worker_req).n}
    /\ UNCHANGED <<nonVaultVars, requests, issued, enqueued, worker_pc, worker_req,
                   db_log, client>>

\* Mutant of WorkerBreak: run returns and the requests still in the channel
\* keep their Senders.
WorkerBreakKeepsSenders ==
    /\ worker_pc = "drops"
    /\ worker_drops = <<>>
    /\ worker_pc' = "stopped"
    /\ worker_req' = None
    /\ requests' = <<>>
    /\ UNCHANGED <<nonVaultVars, issued, enqueued, released, worker_drops, db,
                   db_log, client>>

\* `break`: run returns and drops the receiving end of the request channel,
\* and with it every request still in the channel and its Sender.
WorkerBreak ==
    /\ worker_pc = "drops"
    /\ worker_drops = <<>>
    /\ worker_pc' = "stopped"
    /\ worker_req' = None
    /\ requests' = <<>>
    /\ released' = released \cup Numbers(requests)
    /\ UNCHANGED <<nonVaultVars, issued, enqueued, worker_drops, db, db_log, client>>

\* rx.blocking_recv() yields None: the channel is empty and every Vault is
\* gone. run returns and drops the Connection.
WorkerNone ==
    /\ worker_pc = "recv"
    /\ requests = <<>>
    /\ \A c \in Clients : client[c].pc = "gone"
    /\ worker_pc' = "stopped"
    /\ db' = "closed"
    /\ UNCHANGED <<nonVaultVars, requests, issued, enqueued, released, worker_req,
                   worker_drops, db_log, client>>

NextVault ==
    \/ \E c \in Clients, kind \in RequestKinds : VaultSend(c, kind)
    \/ \E c \in Clients : VaultReturn(c)
    \/ \E c \in Clients : VaultDropFuture(c)
    \/ \E c \in Clients : VaultDrop(c)
    \/ WorkerRecv
    \/ WorkerPerform
    \/ WorkerDrop
    \/ WorkerBreak
    \/ WorkerNone

\* -------------------------------------------------------- ui/chat/tree.rs

\* The ids of the messages in the store of the view.
MsgIds == {1, 2}

\* enum Cursor
Bottom == <<"Bottom">>
Msg(id) == <<"Msg", id>>
Editor(coming_from, parent) == <<"Editor", coming_from, parent>>
Pseudo(coming_from, parent) == <<"Pseudo", coming_from, parent>>

\* enum Reaction
NotHandled == <<"NotHandled">>
Handled == <<"Handled">>
Composed(parent, content) == <<"Composed", parent, content>>

MakeCursorVisible == <<"MakeCursorVisible">>

\* The key events: a movement key each for a relative and an absolute move,
\* the edit initiating keys, Esc, Enter, the space bar, and a key no handler
\* knows. The keys of one character are the characters the editor takes.
MovementKeys == {"Up", "End"}
Keys == MovementKeys \cup {"r", "R", "t", "Esc", "Enter", " ", "F1"}
Chars == {k \in Keys : Len(k) = 1}

\* InnerTreeViewState::new
ViewInit ==
    /\ cursor = Bottom
    /\ last_cursor = Bottom
    /\ correction = None
    /\ editor = <<>>
    /\ last_call = <<"new">>
    /\ pending = None
    /\ may_compose = FALSE

\* move_cursor_up and move_cursor_to_bottom: the cursors the move may end at.
\* End goes to Bottom; Up goes to the line above in the current layout, which
\* is some message, or stays where no line is above.
MoveCursor(key, cur) ==
    IF key = "End" THEN {Bottom} ELSE {cur} \cup {Msg(m) : m \in MsgIds}

\* parent_for_normal_reply and parent_for_alternate_reply: None when there is
\* nothing to reply to, else Some(parent). The alternate reply to a message
\* has that message as parent; a normal reply has the parent the store finds.
ReplyParents(key, id) ==
    IF key = "R" /\ IsSome(id) THEN {Some(id)}
    ELSE {None, Some(None)} \cup {Some(Some(m)) : m \in MsgIds}

\* Mutant of Blank: only the empty text is blank.
BlankIfEmpty(text) == text = <<>>

\* content.trim().is_empty()
Blank(text) == \A i \in DOMAIN text : text[i] = " "

\* EditorState::clear
Clear == <<>>

\* Mutant of NormalKey: the keys that open the editor are taken whatever
\* can_compose says.
NormalKeyComposes(event, can_compose, id) ==
    IF event \in MovementKeys
    THEN {<<c, correction, TRUE>> : c \in MoveCursor(event, cursor)}
    ELSE IF event \in {"r", "R"}
    THEN {IF IsSome(parent)
          THEN <<Editor(id, Unwrap(parent)), Some(MakeCursorVisible), TRUE>>
          ELSE <<cursor, correction, TRUE>> : parent \in ReplyParents(event, id)}
    ELSE IF event = "t"
    THEN {<<Editor(id, None), Some(MakeCursorVisible), TRUE>>}
    ELSE {<<cursor, correction, FALSE>>}

\* handle_normal_key_event, with the cursor at Bottom (id None) or Msg(id):
\* the successor <<cursor, correction, handled>>.
NormalKey(event, can_compose, id) ==
    IF event \in MovementKeys
    THEN {<<c, correction, TRUE>> : c \in MoveCursor(event, cursor)}
    ELSE IF can_compose /\ event \in {"r", "R"}
    THEN {IF IsSome(parent)
          THEN <<Editor(id, Unwrap(parent)), Some(MakeCursorVisible), TRUE>>
          ELSE <<cursor, correction, TRUE>> : parent \in ReplyParents(event, id)}
    ELSE IF can_compose /\ event = "t"
    THEN {<<Editor(id, None), Some(MakeCursorVisible), TRUE>>}
    ELSE {<<cursor, correction, FALSE>>}

\* handle_editor_key_event with the cursor at Editor{coming_from, parent}: the
\* successor <<cursor, correction, editor, reaction>>. Another key goes to
\* util::handle_editor_key_event, which appends a character and knows no F1.
EditorKey(event, coming_from, parent) ==
    IF event = "Esc"
    THEN <<IF IsSome(coming_from) THEN Msg(Unwrap(coming_from)) ELSE Bottom,
           correction, editor, Handled>>
    ELSE IF event = "Enter" /\ ~Blank(editor)
    THEN <<Pseudo(coming_from, parent), correction, editor, Composed(parent, editor)>>
    ELSE IF event = "Enter"
    THEN <<cursor, Some(MakeCursorVisible), editor, Handled>>
    ELSE IF event \in Chars
    THEN <<cursor, Some(MakeCursorVisible), Append(editor, event), Handled>>
    ELSE <<cursor, correction, editor, NotHandled>>

\* handle_key_event: the match on the cursor.
KeyEvent(event, can_compose) ==
    /\ cursor[1] = "Editor" /\ event \in Chars => Len(editor) < MaxText
    /\ IF cursor[1] = "Editor"
       THEN LET r == EditorKey(event, cursor[2], cursor[3])
            IN /\ cursor' = r[1]
               /\ correction' = r[2]
               /\ editor' = r[3]
               /\ last_call' = <<"key", event, r[4]>>
               /\ pending' = IF r[4][1] = "Composed"
                              THEN Some([coming_from |-> cursor[2], parent |-> cursor[3]])
                              ELSE pending
       ELSE /\ \E r \in IF cursor[1] = "Pseudo"
                         THEN IF event \in MovementKeys
                              THEN {<<c, correction, TRUE>> : c \in MoveCursor(event, cursor)}
                              ELSE {<<cursor, correction, FALSE>>}
                         ELSE NormalKey(event, can_compose,
                                        IF cursor = Bottom THEN None ELSE Some(cursor[2])) :
                  /\ cursor' = r[1]
                  /\ correction' = r[2]
                  /\ last_call' = <<"key", event, IF r[3] THEN Handled ELSE NotHandled>>
            /\ UNCHANGED <<editor, pending>>
    /\ may_compose' = (may_compose \/ can_compose)
    /\ UNCHANGED <<nonViewVars, last_cursor>>

\* Mutant of Sent: the cursor is not looked at, every sent(Some(id)) moves to
\* the message and clears the editor.
SentFromAnyCursor(id) ==
    /\ IF IsSome(id)
       THEN /\ last_cursor' = Msg(Unwrap(id))
            /\ cursor' = Msg(Unwrap(id))
            /\ editor' = Clear
       ELSE UNCHANGED <<cursor, last_cursor, editor>>
    /\ last_call' = <<"sent", id>>
    /\ pending' = None
    /\ UNCHANGED <<nonViewVars, correction, may_compose>>

\* sent
Sent(id) ==
    /\ IF cursor[1] = "Pseudo"
       THEN IF IsSome(id)
            THEN /\ last_cursor' = Msg(Unwrap(id))
                 /\ cursor' = Msg(Unwrap(id))
                 /\ editor' = Clear
            ELSE /\ cursor' = IF IsSome(cursor[2]) THEN Msg(Unwrap(cursor[2])) ELSE Bottom
                 /\ UNCHANGED <<last_cursor, editor>>
       ELSE UNCHANGED <<cursor, last_cursor, editor>>
    /\ last_call' = <<"sent", id>>
    /\ pending' = None
    /\ UNCHANGED <<nonViewVars, correction, may_compose>>

NextView ==
    \/ \E event \in Keys, can_compose \in BOOLEAN : KeyEvent(event, can_compose)
    \/ \E id \in {None} \cup {Some(m) : m \in MsgIds} : Sent(id)

\* ---------------------------------------------------------------- store.rs

\* The ids of the messages given to Tree::new and of the segments of a Path.
TreeIds == {1, 2, 3}

\* A value of a type with trait Msg: id() and parent().
Message(id, parent) == [id |-> id, parent |-> parent]
Messages == {Message(id, parent) : id \in TreeIds,
                                   parent \in {None} \cup {Some(p) : p \in TreeIds}}

\* The lists of at most n elements of S.
Lists(S, n) == UNION {[1..k -> S] : k \in 0..n}

\* The orders in which a HashMap with the keys K may yield its values.
Orders(K) == {o \in [1..Cardinality(K) -> K] : \A i, j \in DOMAIN o : o[i] = o[j] => i = j}

\* No tree has been built and no path made.
StoreInit ==
    /\ tree_args = None
    /\ tree = None
    /\ size_call = None
    /\ path = None
    /\ path_args = <<>>
    /\ path_pc = "run"
    /\ persisted = {}
    /\ visited = <<>>
    /\ walk_pc = "idle"

\* children.entry(id).or_default()
OrDefault(children, id) ==
    IF id \in DOMAIN children THEN children ELSE children @@ (id :> <<>>)

\* The body of the loop over msgs.values() of Tree::new.
AddChild(children, msg) ==
    LET own == OrDefault(children, msg.id)
    IN IF IsSome(msg.parent)
       THEN [OrDefault(own, Unwrap(msg.parent))
                EXCEPT ![Unwrap(msg.parent)] = Append(@, msg.id)]
       ELSE own

\* The loop over msgs.values() of Tree::new, the values taken in the order
\* given (as the ids of the messages).
RECURSIVE Children(_, _, _)
Children(msgs, values, children) ==
    IF values = <<>> THEN children
    ELSE Children(msgs, Tail(values), AddChild(children, msgs[Head(values)]))

\* Mutant of SortUnstable: the list as it was filled.
Unsorted(list) == list

\* list.sort_unstable()
SortUnstable(list) == SortSeq(list, LAMBDA a, b : a < b)

\* Tree::new, with the values in which the HashMap yields the messages.
TreeOf(root, list, values) ==
    LET msgs == CollectById(list)
        children == Children(msgs, values, <<>>)
    IN [root |-> root,
        msgs |-> msgs,
        children |-> [id \in DOMAIN children |-> SortUnstable(children[id])]]

\* A call of Tree::new(root, msgs), on any root and any list of messages.
TreeNew ==
    /\ tree = None
    /\ \E root \in TreeIds, list \in Lists(Messages, MaxMsgs) :
           /\ \E values \in Orders({list[k].id : k \in DOMAIN list}) :
                  tree' = Some(TreeOf(root, list, values))
           /\ tree_args' = Some([root |-> root, msgs |-> list])
    /\ UNCHANGED <<nonStoreVars, pathVars, msgVars, size_call>>

\* Tree::msg
TreeMsg(t, id) == IF id \in DOMAIN t.msgs THEN Some(t.msgs[id]) ELSE None

\* Tree::parent
TreeParent(t, id) == IF IsSome(TreeMsg(t, id)) THEN Unwrap(TreeMsg(t, id)).parent ELSE None

\* Tree::children
TreeChildren(t, id) == IF id \in DOMAIN t.children THEN Some(t.children[id]) ELSE None

NextTree == TreeNew

\* The sum the loop of subtree_size adds to result: the sizes of the children
\* in order, or the overflow of the stack if a recursive call never returned.
RECURSIVE SumSizes(_)
SumSizes(sizes) ==
    IF sizes = <<>>
    THEN <<"ok", 0>>
    ELSE LET rest == SumSizes(Tail(sizes))
         IN IF Head(sizes)[1] = "overflow" \/ rest[1] = "overflow"
            THEN <<"overflow">>
            ELSE <<"ok", Head(sizes)[2] + rest[2]>>

\* Tree::subtree_size, with depth calls left on the stack: the children of id,
\* none for an id the tree has no entry for, counted and each one's own
\* subtree_size added. A call with none left overflows the stack and the
\* process aborts.
RECURSIVE SubtreeSizeOn(_, _, _)
SubtreeSizeOn(t, id, depth) ==
    IF depth = 0
    THEN <<"overflow">>
    ELSE LET children == IF IsSome(TreeChildren(t, id))
                         THEN Unwrap(TreeChildren(t, id))
                         ELSE <<>>
             sum == SumSizes([k \in DOMAIN children
                                 |-> SubtreeSizeOn(t, children[k], depth - 1)])
         IN IF sum[1] = "overflow"
            THEN <<"overflow">>
            ELSE <<"ok", Len(children) + sum[2]>>

\* Tree::subtree_size on a stack that holds more calls than the tree has
\* entries: a chain of calls that long has visited an id twice and goes on
\* for ever.
SubtreeSize(t, id) == SubtreeSizeOn(t, id, Cardinality(DOMAIN t.children) + 1)

\* A call of subtree_size(id) on the tree built, on any id.
SubtreeSizeCall ==
    /\ IsSome(tree)
    /\ size_call = None
    /\ \E id \in TreeIds :
           size_call' = Some([id |-> id, result |-> SubtreeSize(Unwrap(tree), id)])
    /\ UNCHANGED <<nonStoreVars, pathVars, msgVars, tree, tree_args>>

NextSubtree == TreeNew \/ SubtreeSizeCall

\* Mutant of NonEmpty: no assertion.
NotAsserted(segments) == TRUE

\* The condition Path::new asserts: !segments.is_empty()
NonEmpty(segments) == segments # <<>>

\* Path::new: the assertion fails and the thread panics, or the Path holds
\* the segments.
PathNew(segments) ==
    /\ path_pc = "run"
    /\ IF NonEmpty(segments)
       THEN /\ path' = Some(segments)
            /\ path_args' = segments
            /\ UNCHANGED path_pc
       ELSE /\ path_pc' = "panicked"
            /\ UNCHANGED <<path, path_args>>
    /\ UNCHANGED <<nonStoreVars, treeVars, msgVars>>

\* Path::push
PathPush(segment) ==
    /\ path_pc = "run"
    /\ IsSome(path)
    /\ Len(Unwrap(path)) < MaxSegments
    /\ path' = Some(Append(Unwrap(path), segment))
    /\ path_args' = Append(path_args, segment)
    /\ UNCHANGED <<nonStoreVars, treeVars, msgVars, path_pc>>

\* Path::first: the outcomes of self.0.first().expect(..), a panic when the
\* Vec is empty.
PathFirst(p) == IF p = <<>> THEN {<<"panic">>} ELSE {<<"ok", p[1]>>}

\* Path::parent_segments: self.0.iter().take(self.0.len() - 1). On an empty
\* Vec the subtraction overflows: a panic, or in a build without overflow
\* checks take(usize::MAX) of nothing.
PathParentSegments(p) ==
    IF p = <<>> THEN {<<"panic">>, <<"ok", <<>>>>}
    ELSE {<<"ok", [i \in 1..(Len(p) - 1) |-> p[i]]>>}

\* The ids of the messages a MsgStore may hold.
StoreIds == 1..MaxMsgId

\* add_msgs: the messages are in the store afterwards, those that were there
\* before included.
AddMsgs(ids) ==
    /\ walk_pc = "idle"
    /\ persisted' = persisted \cup ids
    /\ UNCHANGED <<nonStoreVars, treeVars, pathVars, visited, walk_pc>>

\* MsgStore::oldest_msg_id
OldestMsgId(msgs) ==
    IF msgs = {} THEN None ELSE Some(CHOOSE m \in msgs : \A n \in msgs : m <= n)

\* MsgStore::newest_msg_id
NewestMsgId(msgs) ==
    IF msgs = {} THEN None ELSE Some(CHOOSE m \in msgs : \A n \in msgs : m >= n)

\* Mutant of NewerMsgId: the message itself counts as newer.
NewerOrSameMsgId(msgs, id) == OldestMsgId({m \in msgs : m >= id})

\* MsgStore::newer_msg_id
NewerMsgId(msgs, id) == OldestMsgId({m \in msgs : m > id})

\* A chronological walk: oldest_msg_id first, then newer_msg_id of the id
\* returned last, until a call returns None.
Walk ==
    /\ walk_pc # "done"
    /\ LET next == IF walk_pc = "idle" THEN OldestMsgId(persisted)
                    ELSE NewerMsgId(persisted, visited[Len(visited)])
       IN IF IsSome(next)
          THEN visited' = Append(visited, Unwrap(next)) /\ walk_pc' = "walking"
          ELSE visited' = visited /\ walk_pc' = "done"
    /\ UNCHANGED <<nonStoreVars, treeVars, pathVars, persisted>>

NextMsgStore ==
    \/ \E ids \in SUBSET StoreIds : AddMsgs(ids)
    \/ Walk

NextPath ==
    \/ \E segments \in Lists(TreeIds, MaxSegments) : PathNew(segments)
    \/ \E segment \in TreeIds : PathPush(segment)

\* ------------------------------------------------------------ ui/rooms.rs

\* Room names are strings, modelled as the sequences of their bytes: "a" and
\* "ab". The texts an text may hold are these and their prefixes.
RoomNames == {<<97>>, <<97, 98>>}
Texts == {<<>>} \cup RoomNames

\* enum State
ShowList == <<"ShowList">>
ShowRoom(name) == <<"ShowRoom", name>>
Connect(text) == <<"Connect", text>>
Delete(name, text) == <<"Delete", name, text>>

\* The input events: one per key binding that Rooms matches, a key that
\* moves the cursor of the list, and the characters a, b and -.
Bindings ==
    {"confirm", "abort", "connect", "connect_all", "disconnect", "disconnect_all",
     "connect_autojoin", "disconnect_non_autojoin", "new", "delete",
     "change_sort_order"}
Key(binding) == <<binding>>
Char(c) == <<"char", c>>
InputEvents == {Key(b) : b \in Bindings \cup {"move"}} \cup {Char(c) : c \in {97, 98, 45}}

\* The configurations: offline or not, and euph.rooms, which maps the names
\* of the configured rooms to their autojoin flag.
Configs ==
    {[offline |-> FALSE, rooms_sort_order |-> "Alphabet",
      rooms |-> (<<97>> :> TRUE) @@ (<<97, 98>> :> FALSE)],
     [offline |-> TRUE, rooms_sort_order |-> "Alphabet",
      rooms |-> (<<97>> :> TRUE) @@ (<<97, 98>> :> FALSE)],
     [offline |-> FALSE, rooms_sort_order |-> "Importance", rooms |-> <<>>],
     [offline |-> FALSE, rooms_sort_order |-> "Alphabet", rooms |-> (<<97, 98>> :> TRUE)]}

\* Before Rooms::new is called.
RoomsInit ==
    /\ rooms_pc = "new"
    /\ config = None
    /\ state = ShowList
    /\ rows = {}
    /\ selected = None
    /\ order = "Alphabet"
    /\ euph_rooms = <<>>
    /\ vault_rooms = {}
    /\ rooms_call = <<"none">>

\* An EuphRoom is "idle" while it has no instance, "running" while its
\* instance runs, and "stopped" once its instance has stopped.
\* EuphRoom::new
NewRoom == "idle"
\* EuphRoom::stopped
RoomStopped(room) == room # "running"
\* EuphRoom::retain: a stopped instance is let go.
Retain(room) == IF RoomStopped(room) THEN "idle" ELSE room
\* EuphRoom::connect
RoomConnect(room) == "running"
\* EuphRoom::disconnect
RoomDisconnect(room) == "idle"

\* euph_rooms.entry(name).or_insert_with(EuphRoom::new)
GetOrInsertRoom(rooms, name) ==
    IF name \in DOMAIN rooms THEN rooms ELSE rooms @@ (name :> NewRoom)

\* connect_to_room
ConnectToRoom(rooms, name) ==
    [GetOrInsertRoom(rooms, name) EXCEPT ![name] = RoomConnect(@)]

\* Mutant of ConnectAutojoin: every configured room is connected to.
ConnectConfigured(rooms, cfg) ==
    [n \in DOMAIN rooms \cup DOMAIN cfg.rooms |-> "running"]

\* The loop of Rooms::new and of connect_autojoin over config.euph.rooms.
ConnectAutojoin(rooms, cfg) ==
    LET joined == {n \in DOMAIN cfg.rooms : cfg.rooms[n]}
    IN [n \in DOMAIN rooms \cup joined |->
          IF n \in joined THEN RoomConnect(IF n \in DOMAIN rooms THEN rooms[n] ELSE NewRoom)
          ELSE rooms[n]]

\* Rooms::new, with the rooms the vault has from earlier runs.
RoomsNew(cfg) ==
    /\ rooms_pc = "new"
    /\ rooms_pc' = "run"
    /\ config' = Some(cfg)
    /\ state' = ShowList
    /\ order' = cfg.rooms_sort_order
    /\ euph_rooms' = IF ~cfg.offline THEN ConnectAutojoin(<<>>, cfg) ELSE <<>>
    /\ vault_rooms' \in SUBSET RoomNames
    /\ rooms_call' = <<"new">>
    /\ UNCHANGED <<nonRoomsVars, rows, selected>>

\* The rooms that must exist: those of the vault and of the config, and the
\* room that is shown.
RoomsSet(st) ==
    vault_rooms \cup DOMAIN Unwrap(config).rooms
        \cup (IF st[1] = "ShowRoom" THEN {st[2]} ELSE {})

\* Mutant of Retained: every room stays.
RetainedAll(rooms, set) == DOMAIN rooms

\* euph_rooms.retain(|n, r| !r.stopped() || rooms_set.contains(n)): the names
\* that stay.
Retained(rooms, set) == {n \in DOMAIN rooms : ~RoomStopped(rooms[n]) \/ n \in set}

\* stabilize_rooms: the euph_rooms it leaves.
StabilizeRooms(rooms, st) ==
    LET set == RoomsSet(st)
        kept == Retained(rooms, set)
    IN [n \in kept \cup set |->
          IF n \in set
          THEN Retain(IF n \in kept THEN rooms[n] ELSE NewRoom)
          ELSE rooms[n]]

\* Rooms::widget. Unless a room is shown the rooms are stabilized and the
\* list is built from them, which leaves the selection at one of its rows.
\* A shown room must exist, else the expectation fails.
Widget ==
    /\ rooms_pc = "run"
    /\ IF state[1] = "ShowRoom"
       THEN /\ rooms_pc' = IF state[2] \in DOMAIN euph_rooms THEN "run" ELSE "panicked"
            /\ UNCHANGED <<euph_rooms, rows, selected>>
       ELSE /\ euph_rooms' = StabilizeRooms(euph_rooms, state)
            /\ rows' = DOMAIN euph_rooms'
            /\ selected' \in IF rows' = {} THEN {None} ELSE {Some(n) : n \in rows'}
            /\ UNCHANGED rooms_pc
    /\ rooms_call' = <<"widget">>
    /\ UNCHANGED <<nonRoomsVars, config, state, order, vault_rooms>>

\* room_char: is_ascii_alphanumeric or '_'
RoomChar(c) == c \in (48..57) \cup (65..90) \cup (97..122) \cup {95}

\* handle_showlist_input_event on the stabilized rooms: the successor
\* <<state, selected, order, euph_rooms, handled>>. A key that moves the
\* cursor of the list (util::handle_list_input_event) selects one of its rows.
ShowListEvent(event, rooms) ==
    LET b == event[1]
        cfg == Unwrap(config)
        same == <<state, selected, order, rooms, TRUE>>
    IN IF b = "confirm"
       THEN {<<IF IsSome(selected) THEN ShowRoom(Unwrap(selected)) ELSE state,
               selected, order, rooms, TRUE>>}
       ELSE IF b = "move"
       THEN {<<state, sel, order, rooms, TRUE>> :
                sel \in IF rows = {} THEN {None} ELSE {Some(n) : n \in rows}}
       ELSE IF b = "connect"
       THEN {IF IsSome(selected)
             THEN <<state, selected, order, ConnectToRoom(rooms, Unwrap(selected)), TRUE>>
             ELSE same}
       ELSE IF b = "connect_all"
       THEN {<<state, selected, order, [n \in DOMAIN rooms |-> RoomConnect(rooms[n])], TRUE>>}
       ELSE IF b = "disconnect"
       THEN {<<state, selected, order,
               [n \in DOMAIN rooms |->
                  IF Some(n) = selected THEN RoomDisconnect(rooms[n]) ELSE rooms[n]],
               TRUE>>}
       ELSE IF b = "disconnect_all"
       THEN {<<state, selected, order, [n \in DOMAIN rooms |-> RoomDisconnect(rooms[n])], TRUE>>}
       ELSE IF b = "connect_autojoin"
       THEN {<<state, selected, order, ConnectAutojoin(rooms, cfg), TRUE>>}
       ELSE IF b = "disconnect_non_autojoin"
       THEN {<<state, selected, order,
               [n \in DOMAIN rooms |->
                  IF n \in DOMAIN cfg.rooms /\ cfg.rooms[n]
                  THEN rooms[n] ELSE RoomDisconnect(rooms[n])],
               TRUE>>}
       ELSE IF b = "new"
       THEN {<<Connect(<<>>), selected, order, rooms, TRUE>>}
       ELSE IF b = "delete"
       THEN {<<IF IsSome(selected) THEN Delete(Unwrap(selected), <<>>) ELSE state,
               selected, order, rooms, TRUE>>}
       ELSE IF b = "change_sort_order"
       THEN {<<state, selected,
               IF order = "Alphabet" THEN "Importance" ELSE "Alphabet", rooms, TRUE>>}
       ELSE {<<state, selected, order, rooms, FALSE>>}

\* util::handle_editor_input_event with room_char: a character that passes is
\* put into the editor; the successor <<text, handled>>.
EditorEvent(text, event) ==
    IF event[1] = "char" /\ RoomChar(event[2])
    THEN <<text \o <<event[2]>>, TRUE>>
    ELSE <<text, FALSE>>

\* Mutant of DeleteConfirmed: the text must be the name of the room.
DeleteConfirmedByName(name, text) == text = name

\* The condition under which confirm deletes the room in the Delete dialog:
\* none, the text of the editor is not looked at.
DeleteConfirmed(name, text) == TRUE

\* handle_input_event: stabilize_rooms, then the match on the state. The
\* successor is <<state, selected, order, euph_rooms, vault_rooms, handled>>.
InputEvent(event, rooms) ==
    LET b == event[1]
    IN IF state[1] = "ShowList"
       THEN {<<r[1], r[2], r[3], r[4], vault_rooms, r[5]>> : r \in ShowListEvent(event, rooms)}
       ELSE IF state[1] = "ShowRoom"
       THEN IF state[2] \in DOMAIN rooms
            THEN {<<state, selected, order, [rooms EXCEPT ![state[2]] = r], vault_rooms, TRUE>> :
                     r \in {rooms[state[2]], RoomConnect(rooms[state[2]]),
                            RoomDisconnect(rooms[state[2]])}}
                 \cup {<<IF b = "abort" THEN ShowList ELSE state, selected, order, rooms,
                          vault_rooms, b = "abort">>}
            ELSE {<<state, selected, order, rooms, vault_rooms, FALSE>>}
       ELSE IF b = "abort"
       THEN {<<ShowList, selected, order, rooms, vault_rooms, TRUE>>}
       ELSE IF state[1] = "Connect"
       THEN IF b = "confirm"
            THEN {IF state[2] # <<>>
                  THEN <<ShowRoom(state[2]), selected, order,
                         ConnectToRoom(rooms, state[2]), vault_rooms, TRUE>>
                  ELSE <<state, selected, order, rooms, vault_rooms, TRUE>>}
            ELSE {<<Connect(EditorEvent(state[2], event)[1]), selected, order, rooms,
                    vault_rooms, EditorEvent(state[2], event)[2]>>}
       ELSE IF b = "confirm"
       THEN {IF DeleteConfirmed(state[2], state[3])
             THEN <<ShowList, selected, order,
                    [n \in DOMAIN rooms \ {state[2]} |-> rooms[n]],
                    vault_rooms \ {state[2]}, TRUE>>
             ELSE <<ShowList, selected, order, rooms, vault_rooms, TRUE>>}
       ELSE {<<Delete(state[2], EditorEvent(state[3], event)[1]), selected, order, rooms,
               vault_rooms, EditorEvent(state[3], event)[2]>>}

\* handle_input_event. A character is typed only while the text stays one of
\* Texts.
HandleInputEvent(event) ==
    /\ rooms_pc = "run"
    /\ \E r \in InputEvent(event, StabilizeRooms(euph_rooms, state)) :
          /\ r[1][1] = "Connect" => r[1][2] \in Texts
          /\ r[1][1] = "Delete" => r[1][3] \in Texts
          /\ state' = r[1]
          /\ selected' = r[2]
          /\ order' = r[3]
          /\ euph_rooms' = r[4]
          /\ vault_rooms' = r[5]
          /\ rooms_call' = <<"input", IF event[1] \in {"confirm", "abort"} THEN event[1] ELSE "key">>
    /\ UNCHANGED <<nonRoomsVars, rooms_pc, config, rows>>

\* handle_euph_event for an event of the room with the name: the room
\* handles it, which may put messages of the room into the vault.
HandleEuphEvent(name) ==
    /\ rooms_pc = "run"
    /\ name \in DOMAIN euph_rooms
    /\ euph_rooms[name] = "running"
    /\ vault_rooms' = vault_rooms \cup {name}
    /\ rooms_call' = <<"euph", name>>
    /\ UNCHANGED <<nonRoomsVars, rooms_pc, config, state, rows, selected, order, euph_rooms>>

\* The instance of a room stops by itself: the connection attempt failed, or
\* the server closed the room.
RoomStops(name) ==
    /\ rooms_pc = "run"
    /\ name \in DOMAIN euph_rooms
    /\ euph_rooms[name] = "running"
    /\ euph_rooms' = [euph_rooms EXCEPT ![name] = "stopped"]
    /\ UNCHANGED <<nonRoomsVars, rooms_pc, config, state, rows, selected, order,
                   vault_rooms, rooms_call>>

NextRooms ==
    \/ \E cfg \in Configs : RoomsNew(cfg)
    \/ Widget
    \/ \E event \in InputEvents : HandleInputEvent(event)
    \/ \E name \in RoomNames : HandleEuphEvent(name)
    \/ \E name \in RoomNames : RoomStops(name)

\* The rows of the rooms list: the name of a room, Option<&euph::State> and
\* the number of unseen messages. The names are "a", "ab" and "b".
ListNames == {<<97>>, <<97, 98>>, <<98>>}
RowStates == {None, Some("Connecting"), Some("Connected")}
Row(name, st, unseen) == [name |-> name, state |-> st, unseen |-> unseen]
RowsOf(name) == {Row(name, st, unseen) : st \in RowStates, unseen \in {0, 3}}

\* Nothing has been rendered.
ListInit == rendered = None

\* The order of String: the bytes compared in turn, a prefix first.
StrLess(a, b) ==
    \E i \in 1..(Len(a) + 1) :
        /\ \A k \in 1..(i - 1) : k <= Len(b) /\ a[k] = b[k]
        /\ i <= Len(b)
        /\ i <= Len(a) => a[i] < b[i]

\* The order of the keys of Order::Alphabet: name.
AlphabetLess(x, y) == StrLess(x.name, y.name)

\* Mutant of ImportanceLess: the name alone decides.
NameDecides(x, y) == StrLess(x.name, y.name)

\* The order of the keys of Order::Importance:
\* (state.is_none(), unseen == 0, name), with false before true.
ImportanceLess(x, y) ==
    LET kx == <<x.state = None, x.unseen = 0>>
        ky == <<y.state = None, y.unseen = 0>>
    IN \/ ~kx[1] /\ ky[1]
       \/ /\ kx[1] = ky[1]
          /\ \/ ~kx[2] /\ ky[2]
             \/ kx[2] = ky[2] /\ StrLess(x.name, y.name)

\* sort_rooms
SortRooms(list, ord) ==
    IF ord = "Alphabet"
    THEN SortSeq(list, LAMBDA x, y : AlphabetLess(x, y))
    ELSE SortSeq(list, LAMBDA x, y : ImportanceLess(x, y))

\* render_rows: the rooms of the HashMap, in the order it yields them, are
\* sorted.
RenderRows ==
    /\ rendered = None
    /\ \E names \in SUBSET ListNames, ord \in {"Alphabet", "Importance"} :
          \E yield \in Orders(names) :
             \E list \in [DOMAIN yield -> UNION {RowsOf(n) : n \in names}] :
                /\ \A i \in DOMAIN yield : list[i].name = yield[i]
                /\ rendered' = Some([order |-> ord, rows |-> SortRooms(list, ord),
                                     given |-> list])
    /\ UNCHANGED nonListVars

NextList == RenderRows

\* -------------------------------------------------------------------- ui.rs

\* enum UiEvent: Redraw, and Term with a key event (code and modifiers) or a
\* resize. The keys: Q, c with and without ctrl, F1 and F2.
Redraw == <<"Redraw">>
TermKey(code, modifiers) == <<"Key", code, modifiers>>
TermResize == <<"Resize">>
KeyEvents ==
    {TermKey("Q", "SHIFT"), TermKey("c", "CONTROL"), TermKey("c", "NONE"),
     TermKey("F1", "NONE"), TermKey("F2", "NONE")}
UiEvents == {Redraw, TermResize} \cup KeyEvents

\* The states of the rooms view: the list of rooms, a room, and a room with
\* its editor open.
RoomsViews == {"list", "room", "editor"}

\* Ui::run up to the select: mode Main, the channel empty, run_main starts.
UiInit ==
    /\ mode = "Main"
    /\ ui_pc = "render"
    /\ event_rx = <<>>
    /\ rooms_view = "list"
    /\ forwarded = None

\* Step 1 and 2 of the loop of run_main: autoresize, render and present, any
\* of which may fail, and if widths must be measured, a Redraw is sent.
Render ==
    /\ ui_pc = "render"
    /\ \/ ui_pc' = "err" /\ UNCHANGED event_rx
       \/ ui_pc' = "recv" /\ UNCHANGED event_rx
       \/ /\ Len(event_rx) < MaxEvents
          /\ ui_pc' = "recv"
          /\ event_rx' = Append(event_rx, Redraw)
    /\ UNCHANGED <<nonUiVars, mode, rooms_view, forwarded>>

\* poll_crossterm_events sends a terminal event.
PollSends(event) ==
    /\ ui_pc \in {"render", "recv", "batch"}
    /\ Len(event_rx) < MaxEvents
    /\ event_rx' = Append(event_rx, event)
    /\ UNCHANGED <<nonUiVars, mode, ui_pc, rooms_view, forwarded>>

\* Mutant of Quits: only Q quits.
QuitsOnQ(event) == event[2] = "Q"

\* handle_key_event: shift_q || ctrl_c
Quits(event) ==
    \/ event[2] = "Q"
    \/ event[3] = "CONTROL" /\ event[2] = "c"

\* The mode after the match on event.code of handle_key_event.
ModeAfter(event) ==
    IF event[2] = "F1" THEN "Main" ELSE IF event[2] = "F2" THEN "Log" ELSE mode

\* handle_key_event: the successor <<result, mode, forwarded>>.
UiHandleKeyEvent(event) ==
    IF Quits(event)
    THEN <<"Stop", mode, None>>
    ELSE <<"Continue", ModeAfter(event),
           Some(<<IF ModeAfter(event) = "Main" THEN "rooms" ELSE "log", event>>)>>

\* Step 3 of the loop of run_main, for one event: the event is received
\* (recv for the first of a batch, try_recv after), handled, and the batch
\* ends when the channel is empty. The autoresize before a batch may fail.
\* The rooms view may do anything with a key it is given.
HandleUiEvent ==
    /\ ui_pc \in {"recv", "batch"}
    /\ event_rx # <<>>
    /\ event_rx' = Tail(event_rx)
    /\ \/ /\ ui_pc = "recv"
          /\ ui_pc' = "err"
          /\ UNCHANGED <<mode, rooms_view, forwarded>>
       \/ LET event == Head(event_rx)
              r == IF event[1] = "Key" THEN UiHandleKeyEvent(event)
                   ELSE <<"Continue", mode, None>>
          IN /\ mode' = r[2]
             /\ forwarded' = r[3]
             /\ IF IsSome(r[3]) /\ Unwrap(r[3])[1] = "rooms"
                THEN rooms_view' \in RoomsViews
                ELSE UNCHANGED rooms_view
             /\ ui_pc' = IF r[1] = "Stop" THEN "ok"
                         ELSE IF event_rx' = <<>> THEN "render" ELSE "batch"
    /\ UNCHANGED nonUiVars

NextUi ==
    \/ Render
    \/ \E event \in {TermResize} \cup KeyEvents : PollSends(event)
    \/ HandleUiEvent

\* ------------------------------------- ui.rs (the tasks and crossterm_lock)

\* Ui::run up to the select: crossterm_lock is unlocked, its only strong
\* reference goes to run_main, the polling task holds a Weak and is about to
\* upgrade it, run_main is about to render, and the channel is empty.
TaskInit ==
    /\ crossterm_lock = [owner |-> None, queue |-> <<>>]
    /\ strong = {"main"}
    /\ poll_pc = "upgrade"
    /\ main_pc = "render"
    /\ ui_run = "select"
    /\ queued = 0

\* FairMutex::lock by thread t: the lock is taken if it is free, else the
\* thread parks behind the threads already parked.
Lock(lock, t) ==
    IF lock.owner = None
    THEN [lock EXCEPT !.owner = Some(t)]
    ELSE [lock EXCEPT !.queue = Append(@, t)]

\* Mutant of Unlock: the lock is set free and no parked thread is given it.
UnlockNoHandOff(lock) == [lock EXCEPT !.owner = None]

\* The guard of a FairMutex dropped: the fair unlock hands the lock to the
\* thread parked longest, if there is one.
Unlock(lock) ==
    IF lock.queue = <<>>
    THEN [lock EXCEPT !.owner = None]
    ELSE [owner |-> Some(Head(lock.queue)), queue |-> Tail(lock.queue)]

\* Mutant of Upgrade: the Weak upgrades whatever the strong count.
UpgradeAlways(holders) == TRUE

\* Weak::upgrade is Some while a strong reference exists.
Upgrade(holders) == holders # {}

\* poll_crossterm_events: the condition of the while loop.
PollUpgrade ==
    /\ poll_pc = "upgrade"
    /\ IF Upgrade(strong)
       THEN poll_pc' = "lock" /\ strong' = strong \cup {"poll"}
       ELSE poll_pc' = "ok" /\ UNCHANGED strong
    /\ UNCHANGED <<nonTaskVars, crossterm_lock, main_pc, ui_run, queued>>

\* poll_crossterm_events: lock.lock(), which blocks the thread while the
\* lock is held by run_main.
PollLock ==
    /\ poll_pc = "lock"
    /\ crossterm_lock' = Lock(crossterm_lock, "poll")
    /\ poll_pc' = IF crossterm_lock.owner = None THEN "poll" ELSE "parked"
    /\ UNCHANGED <<nonTaskVars, strong, main_pc, ui_run, queued>>

\* The parked polling thread has been handed the lock.
PollLocked ==
    /\ poll_pc = "parked"
    /\ crossterm_lock.owner = Some("poll")
    /\ poll_pc' = "poll"
    /\ UNCHANGED <<nonTaskVars, crossterm_lock, strong, main_pc, ui_run, queued>>

\* The end of an iteration or of the function: the guard is dropped, then
\* the strong reference.
PollRelease ==
    /\ crossterm_lock' = Unlock(crossterm_lock)
    /\ strong' = strong \ {"poll"}

\* poll_crossterm_events: crossterm::event::poll(POLL_DURATION)?, which
\* returns within POLL_DURATION: an error, no event, or an event to read.
Poll ==
    /\ poll_pc = "poll"
    /\ \/ poll_pc' = "err" /\ PollRelease
       \/ poll_pc' = "upgrade" /\ PollRelease
       \/ /\ queued < MaxEvents
          /\ poll_pc' = "read"
          /\ UNCHANGED <<crossterm_lock, strong>>
    /\ UNCHANGED <<nonTaskVars, main_pc, ui_run, queued>>

\* poll_crossterm_events: read()? and tx.send(..)?, which fails when the
\* receiver of run_main is gone.
Read ==
    /\ poll_pc = "read"
    /\ PollRelease
    /\ \/ poll_pc' = "err" /\ UNCHANGED queued
       \/ IF ui_run = "select"
          THEN poll_pc' = "upgrade" /\ queued' = queued + 1
          ELSE poll_pc' = "err" /\ UNCHANGED queued
    /\ UNCHANGED <<nonTaskVars, main_pc, ui_run>>

\* run_main returns, with Ok or an error: its crossterm_lock is dropped and
\* the first branch of the select of Ui::run completes.
RunMainExit ==
    /\ main_pc' = "exited"
    /\ ui_run' = "returned"
    /\ strong' = strong \ {"main"}

\* run_main, steps 1 and 2 up to crossterm_lock.lock(): autoresize, render
\* and present may fail; if measuring is required the lock is requested.
RunMainRender ==
    /\ main_pc = "render"
    /\ ui_run = "select"
    /\ \/ RunMainExit /\ UNCHANGED crossterm_lock
       \/ main_pc' = "recv" /\ UNCHANGED <<crossterm_lock, strong, ui_run>>
       \/ /\ queued < MaxEvents
          /\ crossterm_lock' = Lock(crossterm_lock, "main")
          /\ main_pc' = IF crossterm_lock.owner = None THEN "measure" ELSE "parked"
          /\ UNCHANGED <<strong, ui_run>>
    /\ UNCHANGED <<nonTaskVars, poll_pc, queued>>

\* The parked thread of run_main has been handed the lock.
RunMainLocked ==
    /\ main_pc = "parked"
    /\ crossterm_lock.owner = Some("main")
    /\ main_pc' = "measure"
    /\ UNCHANGED <<nonTaskVars, crossterm_lock, strong, poll_pc, ui_run, queued>>

\* run_main, step 2 under the guard: measure_widths()? and the Redraw sent
\* to its own channel; the guard is dropped at the end of the block or by
\* the early return.
Measure ==
    /\ main_pc = "measure"
    /\ crossterm_lock' = Unlock(crossterm_lock)
    /\ \/ RunMainExit /\ UNCHANGED queued
       \/ /\ main_pc' = "recv"
          /\ queued' = queued + 1
          /\ UNCHANGED <<strong, ui_run>>
    /\ UNCHANGED <<nonTaskVars, poll_pc>>

\* run_main, step 3 for one event: recv (or try_recv within a batch), the
\* autoresize before a batch, which may fail, and the handler, which may
\* say Stop; the batch ends when the channel is empty.
RunMainRecv ==
    /\ main_pc \in {"recv", "batch"}
    /\ ui_run = "select"
    /\ queued > 0
    /\ queued' = queued - 1
    /\ \/ RunMainExit
       \/ /\ main_pc' = IF queued' = 0 THEN "render" ELSE "batch"
          /\ UNCHANGED <<strong, ui_run>>
    /\ UNCHANGED <<nonTaskVars, crossterm_lock, poll_pc>>

\* run_main is at an await: the future of Ui::run can be left here.
Awaiting == main_pc \in {"render", "recv"}

\* The third branch of the select of Ui::run: the polling task has stopped,
\* Ui::run returns its result and drops run_main.
JoinSelect ==
    /\ ui_run = "select"
    /\ Awaiting
    /\ poll_pc \in {"ok", "err"}
    /\ ui_run' = "returned"
    /\ main_pc' = "dropped"
    /\ strong' = strong \ {"main"}
    /\ UNCHANGED <<nonTaskVars, crossterm_lock, poll_pc, queued>>

\* The second branch of the select: update_on_log_event returns because the
\* logger is gone or the channel is closed.
LogSelect ==
    /\ ui_run = "select"
    /\ Awaiting
    /\ ui_run' = "returned"
    /\ main_pc' = "dropped"
    /\ strong' = strong \ {"main"}
    /\ UNCHANGED <<nonTaskVars, crossterm_lock, poll_pc, queued>>

\* The caller stops awaiting Ui::run and drops its future.
RunDropped ==
    /\ ui_run = "select"
    /\ Awaiting
    /\ ui_run' = "dropped"
    /\ main_pc' = "dropped"
    /\ strong' = strong \ {"main"}
    /\ UNCHANGED <<nonTaskVars, crossterm_lock, poll_pc, queued>>

NextTask ==
    \/ PollUpgrade
    \/ PollLock
    \/ PollLocked
    \/ Poll
    \/ Read
    \/ RunMainRender
    \/ RunMainLocked
    \/ Measure
    \/ RunMainRecv
    \/ JoinSelect
    \/ LogSelect
    \/ RunDropped

\* ------------------------------------------ room.rs (the mutex of RoomState)

\* The tasks that call cmd (directly or through select_room_and_identify);
\* Room::run and its receive are thread 0.
CmdCallers == {1, 2}

\* Room::new: nothing is locked, no call of cmd is under way, Room::run is
\* about to connect, and RoomState.connected is None.
MutexInit ==
    /\ state_mutex = [owner |-> None, queue |-> <<>>]
    /\ cmd_pc = [t \in CmdCallers |-> "idle"]
    /\ drv_pc = "connect"
    /\ has_conn = FALSE
    /\ waiters = {}
    /\ delivered = {}
    /\ rx_rpl = 0

\* cmd: state.lock().await. The tokio Mutex is granted in the order of the
\* requests, like the fair lock of the Ui.
CmdLock(t) ==
    /\ cmd_pc[t] = "idle"
    /\ state_mutex' = Lock(state_mutex, t)
    /\ cmd_pc' = [cmd_pc EXCEPT ![t] = "lock"]
    /\ UNCHANGED <<nonMutexVars, drv_pc, has_conn, waiters, delivered, rx_rpl>>

\* Mutant of CmdUnlock: the guard lives on while the reply is awaited.
CmdKeepsGuard(lock) == lock

\* cmd: the block that holds the guard ends before pending_reply.get().
CmdUnlock(lock) == Unlock(lock)

\* The connection stored in RoomState is the one Room::run is driving.
ConnAlive == drv_pc \in {"recv", "rpl_lock"}

\* cmd under the guard: NotConnected is returned if connected is None; else
\* the id is taken, the waiter registered and the frame sent, which fails on
\* a connection that has ended. The guard is dropped at the end of the block
\* and by the early returns.
CmdBody(t) ==
    /\ cmd_pc[t] = "lock"
    /\ state_mutex.owner = Some(t)
    /\ IF ~has_conn
       THEN /\ cmd_pc' = [cmd_pc EXCEPT ![t] = "returned"]
            /\ state_mutex' = Unlock(state_mutex)
            /\ UNCHANGED waiters
       ELSE /\ waiters' = waiters \cup {t}
            /\ IF ConnAlive
               THEN /\ cmd_pc' = [cmd_pc EXCEPT ![t] = "await"]
                    /\ state_mutex' = CmdUnlock(state_mutex)
               ELSE /\ cmd_pc' = [cmd_pc EXCEPT ![t] = "returned"]
                    /\ state_mutex' = Unlock(state_mutex)
    /\ UNCHANGED <<nonMutexVars, drv_pc, has_conn, delivered, rx_rpl>>

\* cmd: pending_reply.get().await yields the reply, or an error when the
\* waiter timed out or its sender was dropped; cmd returns.
CmdYields(t) ==
    /\ cmd_pc[t] = "await"
    /\ cmd_pc' = [cmd_pc EXCEPT ![t] = "returned"]
    /\ delivered' = delivered \ {t}
    /\ UNCHANGED <<nonMutexVars, state_mutex, drv_pc, has_conn, waiters, rx_rpl>>

\* The caller has the result of cmd, or drops the future of cmd while it
\* awaits the reply; it may call again.
CmdLeft(t) ==
    /\ cmd_pc[t] \in {"returned", "await"}
    /\ cmd_pc' = [cmd_pc EXCEPT ![t] = "idle"]
    /\ delivered' = delivered \ {t}
    /\ UNCHANGED <<nonMutexVars, state_mutex, drv_pc, has_conn, waiters, rx_rpl>>

\* Room::run: connect fails, or it succeeds and the state is locked to
\* store the Connected.
RunConnect ==
    /\ drv_pc = "connect"
    /\ \/ drv_pc' = "cleanup" /\ UNCHANGED state_mutex
       \/ drv_pc' = "connect_lock" /\ state_mutex' = Lock(state_mutex, 0)
    /\ UNCHANGED <<nonMutexVars, cmd_pc, has_conn, waiters, delivered, rx_rpl>>

\* Room::run: `state.lock().await.connected = Some(Connected {..})`, which
\* drops the Replies of the connection before; then the select starts.
RunStoreConnected ==
    /\ drv_pc = "connect_lock"
    /\ state_mutex.owner = Some(0)
    /\ has_conn' = TRUE
    /\ waiters' = {}
    /\ state_mutex' = Unlock(state_mutex)
    /\ drv_pc' = "recv"
    /\ UNCHANGED <<nonMutexVars, cmd_pc, delivered, rx_rpl>>

\* Room::receive: rx.recv() yields a reply packet, for a call whose frame
\* was sent on this connection or with an id nobody waits for (0), and the
\* state is locked for on_rpl.
ReceiveRpl ==
    /\ drv_pc = "recv"
    /\ rx_rpl' \in {0} \cup {t \in waiters : cmd_pc[t] = "await"}
    /\ state_mutex' = Lock(state_mutex, 0)
    /\ drv_pc' = "rpl_lock"
    /\ UNCHANGED <<nonMutexVars, cmd_pc, has_conn, waiters, delivered>>

\* Room::receive: on_rpl under the guard completes the waiter of the reply,
\* or bails, which ends the select.
ReceiveOnRpl ==
    /\ drv_pc = "rpl_lock"
    /\ state_mutex.owner = Some(0)
    /\ state_mutex' = Unlock(state_mutex)
    /\ rx_rpl' = 0
    /\ \/ /\ drv_pc' = "recv"
          /\ waiters' = waiters \ {rx_rpl}
          /\ delivered' = delivered \cup ({rx_rpl} \cap waiters)
       \/ /\ drv_pc' = "cleanup"
          /\ UNCHANGED <<waiters, delivered>>
    /\ UNCHANGED <<nonMutexVars, cmd_pc, has_conn>>

\* The select of Room::run ends while receive awaits a packet: rx.recv()
\* failed or the maintenance returned.
ReceiveEnds ==
    /\ drv_pc = "recv"
    /\ drv_pc' = "cleanup"
    /\ UNCHANGED <<nonMutexVars, state_mutex, cmd_pc, has_conn, waiters, delivered, rx_rpl>>

\* Room::run, "Clean up and maybe reconnect": the state is locked.
RunCleanupLock ==
    /\ drv_pc = "cleanup"
    /\ state_mutex' = Lock(state_mutex, 0)
    /\ drv_pc' = "cleanup_lock"
    /\ UNCHANGED <<nonMutexVars, cmd_pc, has_conn, waiters, delivered, rx_rpl>>

\* Room::run: the status is stored under the guard and the loop goes round
\* or breaks.
RunCleanup ==
    /\ drv_pc = "cleanup_lock"
    /\ state_mutex.owner = Some(0)
    /\ state_mutex' = Unlock(state_mutex)
    /\ drv_pc' \in {"connect", "done"}
    /\ UNCHANGED <<nonMutexVars, cmd_pc, has_conn, waiters, delivered, rx_rpl>>

NextMutex ==
    \/ \E t \in CmdCallers : CmdLock(t)
    \/ \E t \in CmdCallers : CmdBody(t)
    \/ \E t \in CmdCallers : CmdYields(t)
    \/ \E t \in CmdCallers : CmdLeft(t)
    \/ RunConnect
    \/ RunStoreConnected
    \/ ReceiveRpl
    \/ ReceiveOnRpl
    \/ ReceiveEnds
    \/ RunCleanupLock
    \/ RunCleanup

\* ---------------------------------------------------------- specifications

\* Every component as it is constructed.
Start ==
    /\ Init /\ VaultInit /\ ViewInit /\ StoreInit /\ RoomsInit /\ ListInit
    /\ UiInit /\ TaskInit /\ MutexInit

\* The room engine while its owner holds the Room; the other components stay
\* as constructed.
Spec == Start /\ [][Next]_vars

\* The room engine with the direct callers of cmd only, a server that sends
\* notifications too, and an owner that may drop the Room at any moment. The
\* runtime wakes the spawned task when the Sender of the switch is dropped and
\* polls a woken task, so the switch branch of the select is taken in the end.
NextRoom ==
    \/ ConnectOk
    \/ ConnectErr
    \/ Recv
    \/ Handle
    \/ ConnEnd
    \/ Cleanup
    \/ \E t \in Callers : Cmd(t)
    \/ \E t \in Callers : CmdReturn(t)
    \/ \E t \in Callers : CmdDrop(t)
    \/ RecvNtf
    \/ DropRoom
    \/ Cancel
SpecRoom == Start /\ [][NextRoom]_vars /\ WF_vars(Cancel)

\* The vault: the worker thread and the holders of the Vault.
SpecVault == Start /\ [][NextVault]_vars

\* The vault with a worker thread that runs on (nothing in the Close arm
\* blocks after its statement) and callers whose await is polled once its
\* oneshot channel is resolved.
SpecVaultFair ==
    /\ Start
    /\ [][NextVault]_vars
    /\ WF_vars(WorkerDrop) /\ WF_vars(WorkerBreak)
    /\ \A c \in Clients : WF_vars(VaultReturn(c))

\* The tree view: key events and the sent calls of its owner.
SpecView == Start /\ [][NextView]_vars

\* Tree::new called on any list of messages.
SpecTree == Start /\ [][NextTree]_vars

\* Tree::new called on any list of messages, then subtree_size on any id.
SpecSubtree == Start /\ [][NextSubtree]_vars

\* Paths made by Path::new and grown by push.
SpecPath == Start /\ [][NextPath]_vars

\* A MsgStore filled by add_msgs and then walked from the oldest message.
SpecMsgStore == Start /\ [][NextMsgStore]_vars

\* The rooms list: its construction, rendering and input events, the events
\* of the rooms, and rooms that stop.
SpecRooms == Start /\ [][NextRooms]_vars

\* render_rows on any rooms, yielded by the HashMap in any order.
SpecList == Start /\ [][NextList]_vars

\* The main loop of the Ui and the terminal events sent to it.
SpecUi == Start /\ [][NextUi]_vars

\* The two tasks of Ui::run and crossterm_lock. The polling thread runs on
\* (poll returns within POLL_DURATION and nothing else blocks it but the
\* lock), and so does run_main. The select of Ui::run polls its branches from
\* a random one each time the task is polled, and the task is polled again
\* at the awaits of run_main, so a branch that is ready at those awaits
\* again and again is taken in the end.
SpecTask ==
    /\ Start
    /\ [][NextTask]_vars
    /\ WF_vars(PollUpgrade) /\ WF_vars(PollLock) /\ WF_vars(PollLocked)
    /\ WF_vars(Poll) /\ WF_vars(Read)
    /\ WF_vars(RunMainRender) /\ WF_vars(RunMainLocked) /\ WF_vars(Measure)
    /\ WF_vars(RunMainRecv)
    /\ SF_vars(JoinSelect)

\* The tasks that lock the state of the room. No step taken under the guard
\* awaits, so a task that owns the mutex runs on to the end of its block;
\* the waiter of a call times out if nothing else resolves it, so the await
\* of the reply ends.
SpecMutex ==
    /\ Start
    /\ [][NextMutex]_vars
    /\ \A t \in CmdCallers : WF_vars(CmdBody(t)) /\ WF_vars(CmdYields(t))
    /\ WF_vars(RunStoreConnected) /\ WF_vars(ReceiveOnRpl) /\ WF_vars(RunCleanup)

\* ------------------------------------------------------------------ claims

\* The select of Room::run is running: the room has a live connection.
Live == run_pc = "receive"

\* The step is the handling of reply packet <<"Rpl", id, rpl>> by Room::receive.
Handles(rpl) ==
    /\ run_pc = "receive"
    /\ IsSome(packet)
    /\ Unwrap(packet)[1] = "Rpl"
    /\ Unwrap(packet)[3] = rpl
    /\ packet' = None
    /\ run_pc' = "receive" \/ end_cause' = "invalid_room"

\* C1: when Room(InvalidRoom{reason}) is handled on a room that was never
\* verified, status becomes Stopped(InvalidRoom(reason)) with that reason, no
\* later step of the driver changes it, and the driver does not connect again.
C1_InvalidRoomStops ==
    [][ /\ \A r \in Reasons :
            Handles(RoomInvalid(r)) /\ ~room_ok => status' = Stopped(InvalidRoom(r))
        /\ end_cause = "invalid_room" /\ ~room_ok /\ run_pc \in {"cleanup", "done"}
             => status' = status /\ run_pc' \in {"cleanup", "done"}
      ]_vars

\* C2: Stopped is terminal: a status that is Stopped(_) is never replaced by a
\* status that is not, and the driver does not go back to connecting.
C2_StoppedIsTerminal ==
    [][ IsStopped(status) => IsStopped(status') /\ run_pc' # "connect" ]_vars

C4_HappyJoin ==
    [][ \A y \in Yous, o \in OthersLists :
          Handles(IdentifySuccess(y, o)) /\ room_ok /\ IsSome(initial_nick)
          => /\ status' = Nominal
             /\ IsSome(present')
             /\ Unwrap(present').session = y
             /\ DOMAIN Unwrap(present').others = {o[k].id : k \in DOMAIN o}
             /\ \A k \in DOMAIN o :
                  Unwrap(present').others[o[k].id] \in {o[j] : j \in DOMAIN o}
      ]_vars

\* C5: while a connection is live, status is not Reconnecting: the status
\* leaves Reconnecting when the next connect succeeds.
C5_LeavesReconnecting == Live => status # Reconnecting

\* C6: no cross-talk: the reply in the channel of a call was carried by a
\* packet with the id allocated for that call, a channel that holds a reply is
\* not written again, and an Ok that cmd returns is the reply of its channel.
C6_NoCrossTalk ==
    [][ \A t \in Tasks :
          /\ task'[t].pc = "waiting" /\ task'[t].chan \notin {None, Closed}
               => task'[t].chan[2] = task'[t].id
          /\ task[t].pc = "waiting" /\ task[t].chan \notin {None, Closed}
             /\ task'[t].pc = "waiting"
               => task'[t] = task[t]
          /\ task[t].pc = "waiting" /\ task'[t].pc = "idle"
             /\ IsSome(task'[t].result) /\ Unwrap(task'[t].result)[1] = "Ok"
               => /\ task[t].chan \notin {None, Closed}
                  /\ Unwrap(task'[t].result)[2] = task[t].id
      ]_vars

\* C6 witness: two calls wait on one connection and the reply of the later
\* one has arrived first.
C6_Witness ==
    \E t, u \in Tasks :
        /\ task[t].pc = "waiting" /\ task[u].pc = "waiting"
        /\ task[t].tx = task[u].tx
        /\ task[t].id > task[u].id
        /\ task[t].chan \notin {None, Closed}
        /\ task[u].chan = None

\* C7: the ids of the frames written on one connection are strictly
\* increasing, and they are written in the order the ids were allocated.
C7_FramesInIdOrder ==
    /\ \A i, j \in DOMAIN frames : i < j => frames[i] < frames[j]
    /\ \A i \in DOMAIN frames : \E k \in DOMAIN allocs : allocs[k] = frames[i]

\* C7 witness: both tasks have a frame on the wire of one connection.
C7_Witness ==
    /\ Len(frames) >= 2
    /\ task[Sri].pc = "waiting"
    /\ \E t \in Callers :
          task[t].pc = "waiting" /\ task[t].tx = task[Sri].tx /\ task[t].id < task[Sri].id

\* C8: on one connection the n-th allocation yields n - 1, so no id is
\* allocated twice, and the first allocation of every connection yields 0.
C8_IdsCountFromZero == \A n \in DOMAIN allocs : allocs[n] = n - 1

\* C8 witness: ids have been allocated on a second connection after some
\* were allocated on the first.
C8_Witness ==
    /\ conns >= 2
    /\ Len(allocs) >= 2
    /\ IsSome(connected) /\ Unwrap(connected).tx = conns

\* C9: cmd called while the room has no live connection returns NotConnected,
\* allocates no id, registers no waiter and sends no frame.
C9_NotConnected ==
    [][ ~Live /\ ~Live'
        => /\ allocs' = allocs
           /\ frames' = frames
           /\ connected' = connected
           /\ \A t \in Callers :
                task[t].pc = "idle" /\ task'[t] # task[t]
                => task'[t].result = Some(Err("NotConnected"))
      ]_vars

\* C10: present is None whenever status is Reconnecting or Stopped.
C10_PresentDiscarded ==
    status = Reconnecting \/ IsStopped(status) => present = None

\* C11: once the Room is dropped the spawned task terminates in the end, from
\* whichever await it stands at; and once it has terminated on the switch no
\* step changes what the driver writes (status, present, room_verified, the
\* stored connection and its waiters) or starts a connection.
C11_DropStopsDriver ==
    /\ (handle = "dropped") ~> Terminated
    /\ [][ run_pc = "cancelled"
           => /\ run_pc' = "cancelled"
              /\ conns' = conns
              /\ status' = status /\ present' = present
              /\ room_verified' = room_verified
              /\ packet' = packet
              /\ IsSome(connected) => /\ IsSome(connected')
                                      /\ Unwrap(connected').tx = Unwrap(connected).tx
                                      /\ DOMAIN Unwrap(connected).replies
                                            \subseteq DOMAIN Unwrap(connected').replies
         ]_vars

\* C11 witness: the Room was dropped while the driver stood in the receive
\* loop of a connection with a waiter registered, and the task has ended on
\* the switch.
C11_Witness ==
    /\ run_pc = "cancelled"
    /\ handle = "dropped"
    /\ IsSome(connected) /\ DOMAIN Unwrap(connected).replies # {}
    /\ status = Connecting

\* The waiter registered under key on the stored connection has stopped
\* listening: its cmd future was dropped, or it returned without a reply.
Stale(key) ==
    /\ IsSome(connected)
    /\ key \in DOMAIN Unwrap(connected).replies
    /\ ~Awaits(task, Unwrap(connected).replies[key], Unwrap(connected).tx, key)

\* The step is the handling of a reply packet by Room::receive.
HandlesRpl ==
    /\ run_pc = "receive"
    /\ IsSome(packet)
    /\ Unwrap(packet)[1] = "Rpl"
    /\ packet' = None
    /\ run_pc' = "receive" \/ end_cause' = "invalid_room"

\* The step is a direct caller dropping the future of its pending cmd.
Drops(t) ==
    /\ t \in Callers
    /\ task[t].pc = "waiting"
    /\ task'[t] = IdleTask

\* What C12 says of every reply alike: dropping a cmd future changes no other
\* task and leaves the connection as it is; a reply handled for a waiter that
\* stopped listening reaches no task; and a reply handled for a waiter that
\* still listens is delivered to it, whatever other waiters are registered.
C12_OthersUntouched ==
    /\ \A t \in Callers :
          Drops(t) => /\ connected' = connected
                      /\ run_pc' = run_pc
                      /\ \A u \in Tasks \ {t} : task'[u] = task[u]
    /\ HandlesRpl
       => LET id == Unwrap(packet)[2]
              rpl == Unwrap(packet)[3]
          IN /\ Stale(id) => task' = task
             /\ /\ ~OnRplBails(rpl)
                /\ IsSome(connected)
                /\ id \in DOMAIN Unwrap(connected).replies
                /\ ~Stale(id)
                => task'[Unwrap(connected).replies[id]].chan = Delivered(id, rpl)

\* The reply handled for a waiter that stopped listening raises no error: the
\* receive loop goes on, and the other waiters stay registered.
StaleReplyKeepsLoop(id) ==
    /\ run_pc' = "receive"
    /\ end_cause' = end_cause
    /\ status' = status
    /\ Unwrap(connected').tx = Unwrap(connected).tx
    /\ DOMAIN Unwrap(connected').replies = DOMAIN Unwrap(connected).replies \ {id}
    /\ \A k \in DOMAIN Unwrap(connected').replies :
          Unwrap(connected').replies[k] = Unwrap(connected).replies[k]

C13_IncorrectReplyType ==
    [][ \A t \in Callers :
          /\ /\ task[t].pc = "waiting"
             /\ task[t].chan \notin {None, Closed}
             /\ task[t].chan[3][1] # task[t].cmd
             /\ task'[t].pc = "idle" /\ IsSome(task'[t].result)
             => /\ task'[t].result = Some(Err("IncorrectReplyType"))
                /\ IsSome(connected') /\ connected' = connected
                /\ run_pc' = run_pc /\ packet' = packet /\ status' = status
                /\ \A u \in Tasks \ {t} : task'[u] = task[u]
          /\ /\ task[t].pc = "idle"
             /\ task[t].result = Some(Err("IncorrectReplyType"))
             /\ Live /\ IsSome(connected) /\ Unwrap(connected).tx = conns
             /\ task'[t] # task[t]
             => /\ task'[t].pc = "waiting"
                /\ task'[t].id = Unwrap(connected).next_id
                /\ task'[t].tx = conns
                /\ frames' = Append(frames, task'[t].id)
                /\ Unwrap(connected').replies[task'[t].id] = t
      ]_vars

\* C13 witness: a caller is back from cmd with IncorrectReplyType; the
\* connection it used is still the live one and has an id left for the next
\* call.
C13_Witness ==
    \E t \in Callers :
        /\ task[t].pc = "idle"
        /\ task[t].result = Some(Err("IncorrectReplyType"))
        /\ Live /\ IsSome(connected) /\ Unwrap(connected).tx = conns
        /\ Unwrap(connected).next_id < MaxIds
        /\ Unwrap(connected).next_id > 0

\* The step is the handling of notification ntf by Room::receive.
HandlesNtf ==
    /\ run_pc = "receive"
    /\ IsSome(packet)
    /\ Unwrap(packet)[1] = "Ntf"
    /\ packet' = None
    /\ run_pc' = "receive"

\* C14: a notification handled while present is Some leaves the own session
\* alone and folds into others: Join and Nick set others[who.id] to who, Part
\* removes who.id, and every other entry stays; a notification handled while
\* present is None changes nothing in RoomState.
C14_NtfFold ==
    [][ HandlesNtf
          => /\ status' = status /\ connected' = connected
             /\ initial_nick' = initial_nick
             /\ IF present = None
                THEN present' = None
                ELSE LET o == Unwrap(present).others
                         ntf == Unwrap(packet)[2]
                         w == ntf[2]
                     IN /\ IsSome(present')
                        /\ Unwrap(present').session = Unwrap(present).session
                        /\ DOMAIN Unwrap(present').others =
                              IF ntf[1] \in {"Join", "Nick"} THEN DOMAIN o \cup {w.id}
                              ELSE IF ntf[1] = "Part" THEN DOMAIN o \ {w.id}
                              ELSE DOMAIN o
                        /\ \A k \in DOMAIN Unwrap(present').others :
                              Unwrap(present').others[k] =
                                IF k = w.id /\ ntf[1] \in {"Join", "Nick"} THEN w
                                ELSE o[k]
      ]_vars

\* C14 witness: a Part is in the hand of the receive loop while others holds
\* the parting session next to an entry that a Nick has replaced since the
\* Identify reply.
C14_Witness ==
    /\ Live
    /\ IsSome(packet) /\ Unwrap(packet) = <<"Ntf", Ntf("Part", Session("s3", "c"))>>
    /\ IsSome(present)
    /\ DOMAIN Unwrap(present).others = {"s2", "s3"}
    /\ Unwrap(present).others["s2"] = Session("s2", "c")

\* The statements of request n have run and returned.
Performed(n) == \E i \in DOMAIN db_log : db_log[i][1] = "end" /\ db_log[i][2] = n

\* The step is Vault::close returning to client c.
CloseReturns(c) ==
    /\ client[c].pc = "await"
    /\ client[c].kind = "Close"
    /\ client[c].n \in released
    /\ client'[c].pc = "idle"

\* Once the worker is past the statement of a Close it runs no statement,
\* takes no request and does not return to its loop.
NothingAfterClose ==
    worker_pc \in {"drops", "stopped"}
    => db_log' = db_log /\ worker_pc' \in {"drops", "stopped"}

\* C15 as claimed: Vault::close returns only after the worker has dropped the
\* Connection, every request enqueued before the Close request has been
\* performed by then, and the worker performs nothing after handling Close.
C15_CloseAsClaimed ==
    [][ /\ \A c \in Clients :
              CloseReturns(c)
              => /\ db = "closed"
                 /\ \A m \in enqueued : m < client[c].n => Performed(m)
        /\ NothingAfterClose
      ]_vars

\* C15 amended: Vault::close returns only after the worker has dropped the
\* Connection; when the worker handled the Close request of that call, every
\* request enqueued before it has been performed by then; the worker performs
\* nothing after handling a Close, so what is enqueued behind the first Close,
\* a second Close and the requests before it included, is dropped unperformed.
C15_Close ==
    [][ /\ \A c \in Clients :
              CloseReturns(c)
              => /\ db = "closed"
                 /\ Performed(client[c].n)
                    => \A m \in enqueued : m < client[c].n => Performed(m)
                 /\ ~Performed(client[c].n) => worker_pc = "stopped"
        /\ NothingAfterClose
      ]_vars

\* C15 witness: a close whose request the worker handled after an earlier
\* request is about to return: the Connection is closed and the Sender of the
\* Close request is dropped.
C15_Witness ==
    \E c \in Clients :
        /\ client[c].pc = "await" /\ client[c].kind = "Close"
        /\ client[c].n \in released
        /\ Performed(client[c].n)
        /\ \E m \in enqueued : m < client[c].n /\ Performed(m)
        /\ db = "closed"

\* C16: the worker performs one request at a time, in the order of the
\* channel: in the log every start is followed by the end of the same request
\* before the next start, the requests start in the order they were enqueued,
\* and every request enqueued before a request that starts has ended before.
C16_OneAtATimeInOrder ==
    /\ \A i \in DOMAIN db_log :
          IF i % 2 = 1
          THEN db_log[i][1] = "start"
          ELSE db_log[i][1] = "end" /\ db_log[i][2] = db_log[i - 1][2]
    /\ \A i, j \in DOMAIN db_log :
          i < j /\ db_log[i][1] = "start" /\ db_log[j][1] = "start"
          => db_log[i][2] < db_log[j][2]
    /\ \A j \in DOMAIN db_log :
          db_log[j][1] = "start"
          => \A m \in enqueued :
                m < db_log[j][2]
                => \E i \in 1..(j - 1) : db_log[i][1] = "end" /\ db_log[i][2] = m

\* C16 witness: both holders of the Vault await a request, one of them is
\* being performed after an earlier request ended, the other is in the channel.
C16_Witness ==
    /\ \A c \in Clients : client[c].pc = "await"
    /\ worker_pc = "perform"
    /\ Len(db_log) >= 3
    /\ requests # <<>>

\* The step is the worker finishing the statements of the request it holds.
Performs ==
    /\ worker_pc = "perform"
    /\ Len(db_log') = Len(db_log) + 1

\* The number of times the statements of request n have run.
Runs(log, n) == Cardinality({i \in DOMAIN log : log[i][1] = "end" /\ log[i][2] = n})

\* C17: a store request whose Receiver was gone when the worker took it is
\* performed all the same, once; that nobody takes the reply changes nothing:
\* the worker goes back to its loop with the Connection open and the channel
\* as it was.
C17_OrphanPerformedOnce ==
    [][ /\ Performs
        /\ Unwrap(worker_req).kind = "Euph"
        /\ db_log[Len(db_log)] = <<"start", Unwrap(worker_req).n, FALSE>>
        => /\ Runs(db_log', Unwrap(worker_req).n) = 1
           /\ worker_pc' = "recv"
           /\ db' = "open"
           /\ requests' = requests
           /\ Unwrap(worker_req).n \in released'
      ]_vars

\* C17 witness: a store request whose Receiver was gone when the worker took
\* it has been performed, and the worker has taken the next request.
C17_Witness ==
    \E i \in DOMAIN db_log :
        /\ db_log[i][1] = "start" /\ db_log[i][3] = FALSE
        /\ Len(db_log) >= i + 2
        /\ db_log[i + 1][1] = "end" /\ db_log[i + 1][2] = db_log[i][2]
        /\ db_log[i + 2][1] = "start"
        /\ \E c \in Clients : client[c].kind = "Euph" /\ client[c].n = db_log[i + 2][2]

\* C18: statements that return an error end nothing: after them the worker
\* stands where it stands after statements that succeed; the worker stops only
\* in the Close arm, or when the channel is empty and every Vault is gone.
C18_ErrorsDoNotStop ==
    [][ /\ Performs /\ db_log'[Len(db_log')][3] = "err"
           => /\ worker_pc' = IF Unwrap(worker_req).kind = "Close" THEN "drops" ELSE "recv"
              /\ db' = db
              /\ requests' = requests
        /\ worker_pc # "stopped" /\ worker_pc' = "stopped"
           => \/ worker_pc = "drops" /\ Unwrap(worker_req).kind = "Close"
              \/ /\ worker_pc = "recv"
                 /\ requests = <<>>
                 /\ \A c \in Clients : client[c].pc = "gone"
      ]_vars

\* C18 witness: the statements of a Gc failed, and the worker has performed
\* the next request since.
C18_Witness ==
    \E i \in DOMAIN db_log :
        /\ db_log[i][1] = "end" /\ db_log[i][3] = "err"
        /\ Len(db_log) >= i + 2
        /\ db_log[i + 2][1] = "end"
        /\ worker_pc = "recv"

\* The step is the sent call that answers the Composed last emitted.
Answers == IsSome(pending) /\ last_call'[1] = "sent"

\* C19: cursor round trip: when sent is called after Enter has emitted a
\* Composed, whatever keys were handled in between, sent(Some(id)) leaves the
\* cursor and last_cursor at Msg(id) and the editor empty, and sent(None)
\* leaves the cursor at Msg(coming_from), or at Bottom when coming_from is None.
C19_RoundTrip ==
    [][ Answers
        => IF IsSome(last_call'[2])
           THEN /\ cursor' = Msg(Unwrap(last_call'[2]))
                /\ last_cursor' = Msg(Unwrap(last_call'[2]))
                /\ editor' = <<>>
           ELSE cursor' = IF IsSome(Unwrap(pending).coming_from)
                          THEN Msg(Unwrap(Unwrap(pending).coming_from))
                          ELSE Bottom
      ]_vars

\* The step is Enter handled while the cursor is Editor{coming_from, parent}.
EnterInEditor ==
    /\ cursor[1] = "Editor"
    /\ last_call'[1] = "key"
    /\ last_call'[2] = "Enter"

\* C20: Enter in the editor emits Composed{parent, content} with the parent
\* of the cursor and the text of the editor, and moves the cursor to
\* Pseudo{coming_from, parent}, exactly when the text has a character that is
\* not white space; otherwise nothing is emitted and the cursor stays.
C20_EnterInEditor ==
    [][ EnterInEditor
        => IF \E i \in DOMAIN editor : editor[i] # " "
           THEN /\ last_call'[3] = Composed(cursor[3], editor)
                /\ cursor' = Pseudo(cursor[2], cursor[3])
           ELSE /\ last_call'[3] = Handled
                /\ cursor' = cursor
                /\ pending' = pending
      ]_vars

\* C20 witness: Enter has just emitted a reply to message 2 composed from
\* message 1 whose text starts with a space, and Enter was handled on a text
\* of one space before without leaving the editor.
C20_Witness ==
    /\ cursor = Pseudo(Some(1), Some(2))
    /\ last_call = <<"key", "Enter", Composed(Some(2), <<" ", "r">>)>>
    /\ correction = Some(MakeCursorVisible)

\* C21: at most one composition is in flight: between a Composed and the
\* sent call that answers it, no key event opens an Editor cursor or emits
\* another Composed.
C21_OneInFlight ==
    [][ IsSome(pending) /\ last_call'[1] = "key"
        => /\ cursor'[1] # "Editor"
           /\ last_call'[3][1] # "Composed"
      ]_vars

\* C21, the part about the Pseudo cursor itself: a key handled while the
\* cursor is Pseudo is a movement, or is not handled and changes nothing.
C21_PseudoTakesMovementOnly ==
    [][ cursor[1] = "Pseudo" /\ last_call'[1] = "key"
        => /\ cursor'[1] # "Editor"
           /\ last_call'[3][1] # "Composed"
           /\ last_call'[2] \notin MovementKeys
              => last_call'[3] = NotHandled /\ cursor' = cursor /\ editor' = editor
      ]_vars

\* C22: in a Tree built by Tree::new, the child list of every node is
\* strictly ascending by id, so no id occurs twice in it.
C22_ChildrenAscending ==
    IsSome(tree)
    => \A id \in DOMAIN Unwrap(tree).children :
          LET list == Unwrap(tree).children[id]
          IN \A i, j \in DOMAIN list : i < j => list[i] < list[j]

\* C22 witness: a tree built from a list that has message 1 twice and is not
\* in the order of the ids, in which message 3 has the children 1 and 2.
C22_Witness ==
    /\ IsSome(tree)
    /\ Unwrap(tree_args).msgs
          = <<Message(2, Some(3)), Message(1, None), Message(1, Some(3))>>
    /\ TreeChildren(Unwrap(tree), 3) = Some(<<1, 2>>)

\* Repeated Tree::parent from id arrives at the root in at most n calls.
RECURSIVE ReachesRoot(_, _, _)
ReachesRoot(t, id, n) ==
    \/ id = t.root
    \/ /\ n > 0
       /\ IsSome(TreeParent(t, id))
       /\ ReachesRoot(t, Unwrap(TreeParent(t, id)), n - 1)

\* C23: in a Tree built by Tree::new, every message other than the root has
\* a parent, the parent is a message of the tree, and repeated parent
\* traversal from the message reaches the root.
C23_ParentsInTree ==
    IsSome(tree)
    => LET t == Unwrap(tree)
       IN \A id \in DOMAIN t.msgs :
             id # t.root
             => /\ IsSome(TreeParent(t, id))
                /\ IsSome(TreeMsg(t, Unwrap(TreeParent(t, id))))
                /\ ReachesRoot(t, id, Cardinality(DOMAIN t.msgs))

\* C24: a Path is never empty: after any calls of new and push, first()
\* returns the first segment given and parent_segments() yields the segments
\* given except the last, in order, neither failing.
C24_PathNeverEmpty ==
    IsSome(path)
    => /\ Unwrap(path) # <<>>
       /\ PathFirst(Unwrap(path)) = {<<"ok", Head(path_args)>>}
       /\ PathParentSegments(Unwrap(path))
            = {<<"ok", SubSeq(path_args, 1, Len(path_args) - 1)>>}

\* C24 witness: Path::new has rejected an empty list after a Path was made
\* of one segment and grown by two.
C24_Witness ==
    /\ path_pc = "panicked"
    /\ path_args = <<2, 1, 3>>
    /\ PathFirst(Unwrap(path)) = {<<"ok", 2>>}
    /\ PathParentSegments(Unwrap(path)) = {<<"ok", <<2, 1>>>>}

\* C25: chronological navigation: the walk from oldest_msg_id along
\* newer_msg_id returns ids in ascending order, all of them persisted, and
\* when it gets None it has returned every persisted id and the last one
\* returned is newest_msg_id.
C25_ChronologicalWalk ==
    /\ \A i, j \in DOMAIN visited : i < j => visited[i] < visited[j]
    /\ \A i \in DOMAIN visited : visited[i] \in persisted
    /\ walk_pc = "done"
       => /\ {visited[i] : i \in DOMAIN visited} = persisted
          /\ NewestMsgId(persisted)
               = IF visited = <<>> THEN None ELSE Some(visited[Len(visited)])
          /\ persisted # {} => NewerMsgId(persisted, visited[Len(visited)]) = None

\* C25 witness: the messages 3, 1 and 4 were added in two calls, and the
\* walk has returned 1, 3, 4 and then None.
C25_Witness ==
    /\ walk_pc = "done"
    /\ persisted = {1, 3, 4}
    /\ visited = <<1, 3, 4>>

\* The names of the rooms found in the vault or in the config.
Known == vault_rooms \cup DOMAIN Unwrap(config).rooms

\* C26: stabilize_rooms, run in any state of Rooms, leaves every room of the
\* vault and of the config in euph_rooms, leaves no room that is stopped
\* unless it is in the vault, in the config or shown, and removes the rooms
\* that are stopped and none of these.
C26_Stabilized ==
    rooms_pc = "run"
    => LET after == StabilizeRooms(euph_rooms, state)
       IN /\ Known \subseteq DOMAIN after
          /\ \A n \in DOMAIN after :
                \/ ~RoomStopped(after[n])
                \/ n \in Known
                \/ state = ShowRoom(n)
          /\ \A n \in DOMAIN euph_rooms :
                RoomStopped(euph_rooms[n]) /\ n \notin Known /\ state # ShowRoom(n)
                => n \notin DOMAIN after

\* C26 witness: widget has stabilized the rooms of a run with no configured
\* room, while the connect dialog is open: the room of the vault is there
\* without an instance, and the running room that is not in the vault has
\* stayed.
C26_Witness ==
    /\ rooms_call = <<"widget">>
    /\ state = Connect(<<97>>)
    /\ Unwrap(config).rooms = <<>>
    /\ vault_rooms = {<<97>>}
    /\ euph_rooms = (<<97>> :> "idle") @@ (<<97, 98>> :> "running")

\* C27: confirm in the dialog Delete(name, text) removes the room and
\* deletes its history from the vault only if the text is the name: with any
\* other text the vault keeps its rooms and euph_rooms is as stabilize_rooms
\* leaves it.
C27_DeleteNeedsName ==
    [][ /\ state[1] = "Delete"
        /\ rooms_call' = <<"input", "confirm">>
        /\ state[3] # state[2]
        => /\ vault_rooms' = vault_rooms
           /\ euph_rooms' = StabilizeRooms(euph_rooms, state)
      ]_vars

\* C29: Rooms::new connects to no room if offline is true, and else to
\* exactly the configured rooms whose autojoin flag is true.
C29_StartupConnects ==
    [][ rooms_pc = "new" /\ rooms_pc' = "run"
        => LET cfg == Unwrap(config')
           IN {n \in DOMAIN euph_rooms' : ~RoomStopped(euph_rooms'[n])}
                = IF cfg.offline THEN {}
                  ELSE {n \in DOMAIN cfg.rooms : cfg.rooms[n]}
      ]_vars

\* C29 witness: Rooms::new has run, not offline, with room a configured to
\* autojoin and room ab configured not to: a has a running instance and ab
\* has none.
C29_Witness ==
    /\ rooms_call = <<"new">>
    /\ ~Unwrap(config).offline
    /\ Unwrap(config).rooms = (<<97>> :> TRUE) @@ (<<97, 98>> :> FALSE)
    /\ euph_rooms = (<<97>> :> "running")

HandlesQuitKey ==
    /\ ui_pc \in {"recv", "batch"}
    /\ event_rx # <<>>
    /\ event_rx' = Tail(event_rx)
    /\ ui_pc' # "err"
    /\ Head(event_rx) \in {TermKey("Q", "SHIFT"), TermKey("c", "CONTROL")}

\* C30: in every mode and every state of the rooms view, handling the key Q
\* or ctrl+c stops: run_main returns Ok, the key is forwarded to no view,
\* the rooms view is as before, and the mode has not changed.
C30_QuitKeys ==
    [][ HandlesQuitKey
        => /\ ui_pc' = "ok"
           /\ forwarded' = None
           /\ rooms_view' = rooms_view
           /\ mode' = mode
      ]_vars

\* C30 witness: run_main has returned Ok in mode Log with the editor of the
\* rooms view open and another event still in the channel.
C30_Witness ==
    /\ ui_pc = "ok"
    /\ mode = "Log"
    /\ rooms_view = "editor"
    /\ forwarded = None
    /\ event_rx # <<>>

\* C31: whenever Rooms::widget is called while the state is ShowRoom(name),
\* euph_rooms contains name, so the expectation "room exists after
\* stabilization" of widget never fails, whatever the interleaving of input
\* events, rooms stopping and stabilize_rooms runs.
C31_ShownRoomExists ==
    /\ rooms_pc # "panicked"
    /\ (rooms_call = <<"widget">> /\ state[1] = "ShowRoom") => state[2] \in DOMAIN euph_rooms

\* The polling task has returned, with Ok or an error.
PollStopped == poll_pc \in {"ok", "err"}

\* C32: if run_main exits or Ui::run is no longer awaited, the polling task
\* stops in the end, and no upgrade of its Weak succeeds from then on, so it
\* finishes at most the iteration it is in; and if the polling task stops,
\* Ui::run returns (or was dropped), which ends run_main.
C32_TasksStopTogether ==
    /\ (ui_run # "select") ~> PollStopped
    /\ [][ui_run # "select" => ~(poll_pc = "upgrade" /\ poll_pc' = "lock")]_vars
    /\ PollStopped ~> (ui_run # "select" /\ main_pc \in {"exited", "dropped"})

\* C32 witness: the polling task has stopped because its upgrade failed
\* after run_main was left.
C32_Witness == poll_pc = "ok" /\ ui_run \in {"returned", "dropped"}

\* C32 witness of the converse: Ui::run has returned through the branch of
\* the polling task, which had failed while run_main was still running.
C32_WitnessJoin == poll_pc = "err" /\ ui_run = "returned" /\ main_pc = "dropped"

\* C38: measure_widths in run_main and poll or read in the polling task never
\* run at the same time, each runs only while its thread owns crossterm_lock,
\* and a lock request of run_main is granted in the end.
C38_LockExcludesAndIsGranted ==
    /\ [](~(main_pc = "measure" /\ poll_pc \in {"poll", "read"}))
    /\ [](main_pc = "measure" => crossterm_lock.owner = Some("main"))
    /\ [](poll_pc \in {"poll", "read"} => crossterm_lock.owner = Some("poll"))
    /\ (main_pc = "parked") ~> (main_pc = "measure")

\* C38 witness: run_main measures under the lock while the polling task is
\* parked behind it.
C38_Witness ==
    /\ main_pc = "measure"
    /\ crossterm_lock.owner = Some("main")
    /\ poll_pc = "parked"

\* C33: every reply packet handled while connected, Room(InvalidRoom)
\* included, completes the waiter registered for its id, if that waiter still
\* listens, with that reply; a reply whose id has no waiter changes no task
\* and no waiter and raises no error.
C33_EveryReplyCompletes ==
    [][ HandlesRpl /\ IsSome(connected)
        => LET id == Unwrap(packet)[2]
               rpl == Unwrap(packet)[3]
               cn == Unwrap(connected)
           IN /\ id \in DOMAIN cn.replies /\ ~Stale(id)
                 => task'[cn.replies[id]].chan = Delivered(id, rpl)
              /\ id \notin DOMAIN cn.replies
                 => /\ task' = task
                    /\ connected' = connected
                    /\ run_pc' = "receive"
      ]_vars

\* Task t waits, undecided, for a reply on the connection RoomState holds.
Outstanding(t) ==
    /\ IsSome(connected)
    /\ Awaits(task, t, Unwrap(connected).tx, task[t].id)

\* C34: when a connection has ended and the driver is at its next connection
\* attempt or has exited, no waiter of that connection is still outstanding
\* (each was resolved with an error), and from the end of a connection on no
\* cmd registers a waiter on it.
C34_EndedConnectionFailsAll ==
    /\ [](run_pc \in {"connect", "done", "cancelled"}
             => \A t \in Tasks : ~Outstanding(t))
    /\ [][ ~Live /\ IsSome(connected) /\ IsSome(connected')
           /\ Unwrap(connected').tx = Unwrap(connected).tx
           => DOMAIN Unwrap(connected').replies \subseteq DOMAIN Unwrap(connected).replies
       ]_vars

\* C35: a call of cmd does not own the state mutex while it awaits its reply,
\* so receive, once it has a reply in hand, gets the mutex and handles it;
\* and every call of cmd that has started returns (or is dropped by its
\* caller while it awaits the reply).
C35_CmdAwaitsUnlocked ==
    /\ [](\A t \in CmdCallers : cmd_pc[t] = "await" => state_mutex.owner # Some(t))
    /\ (drv_pc = "rpl_lock") ~> (drv_pc \in {"recv", "cleanup"})
    /\ \A t \in CmdCallers :
          (cmd_pc[t] \in {"lock", "await"}) ~> (cmd_pc[t] \in {"returned", "idle"})

\* C35 witness: one call awaits its reply while receive owns the mutex to
\* handle that reply and the other call is queued for the mutex.
C35_Witness ==
    /\ cmd_pc[1] = "await"
    /\ drv_pc = "rpl_lock" /\ rx_rpl = 1
    /\ state_mutex.owner = Some(0)
    /\ state_mutex.queue = <<2>>

\* C36: sent changes the state only when the cursor is Pseudo: with the
\* cursor at Bottom, Msg or Editor, sent(Some(_)) and sent(None) leave cursor,
\* last_cursor and the editor text as they are; sent(None) on a Pseudo cursor
\* leaves the editor text and last_cursor as they are; sent(Some(id)) on a
\* Pseudo cursor clears the editor.
C36_SentActsOnPseudoOnly ==
    [][ last_call'[1] = "sent"
        => /\ cursor[1] # "Pseudo"
              => cursor' = cursor /\ last_cursor' = last_cursor /\ editor' = editor
           /\ cursor[1] = "Pseudo" /\ last_call'[2] = None
              => editor' = editor /\ last_cursor' = last_cursor
           /\ cursor[1] = "Pseudo" /\ last_call'[2] # None
              => editor' = <<>>
      ]_vars

\* C36 witness: sent(Some(id)) was called while the editor was open with
\* text in it, and the editor is still open with that text.
C36_Witness ==
    /\ last_call[1] = "sent" /\ last_call[2] # None
    /\ cursor[1] = "Editor"
    /\ editor # <<>>

\* The worker is past the statement of a Close request.
CloseHandled == worker_pc \in {"drops", "stopped"}

\* C37: once the worker has handled Close, every call on the Vault (close,
\* gc or a store request, from any clone, a second close included) returns,
\* and no request is performed any more: the worker runs no statement, and a
\* request that never got into the channel is never performed.
C37_CallsAfterCloseReturn ==
    /\ \A c \in Clients :
          (client[c].pc = "await" /\ CloseHandled) ~> (client[c].pc # "await")
    /\ [][CloseHandled => db_log' = db_log /\ CloseHandled']_vars
    /\ [](\A n \in 1..issued : Performed(n) => n \in enqueued)

\* C37 witness: a second close, called after the worker stopped, is about to
\* return: its request never got into the channel and was not performed.
C37_Witness ==
    \E c \in Clients :
        /\ client[c].pc = "await" /\ client[c].kind = "Close"
        /\ client[c].n \notin enqueued
        /\ client[c].n \in released
        /\ ~Performed(client[c].n)
        /\ worker_pc = "stopped"
        /\ db = "closed"

\* C39: as long as every key event was handled with can_compose = false,
\* from the initial cursor Bottom on, the cursor is not Editor or Pseudo, no
\* key event was answered with Composed, and nothing was typed.
C39_ReadOnlyNeverComposes ==
    ~may_compose
    => /\ cursor[1] \in {"Bottom", "Msg"}
       /\ last_call[1] = "key" => last_call[3][1] # "Composed"
       /\ pending = None
       /\ editor = <<>>

\* C39 witness: with the cursor on a message and no key event handled with
\* can_compose = true so far, the key that starts a new thread was handled
\* and was not taken.
C39_Witness ==
    /\ ~may_compose
    /\ cursor[1] = "Msg"
    /\ last_call = <<"key", "t", NotHandled>>

\* id is a proper descendant of top: repeated Tree::parent from id arrives
\* at top in at least one and at most n calls.
RECURSIVE DescendsFrom(_, _, _, _)
DescendsFrom(t, id, top, n) ==
    /\ n > 0
    /\ IsSome(TreeParent(t, id))
    /\ \/ Unwrap(TreeParent(t, id)) = top
       \/ DescendsFrom(t, Unwrap(TreeParent(t, id)), top, n - 1)

\* The messages of the tree that are proper descendants of top.
Descendants(t, top) ==
    {id \in DOMAIN t.msgs : DescendsFrom(t, id, top, Cardinality(DOMAIN t.msgs))}

\* C40: for a Tree built by Tree::new from any list of messages and for
\* every id, subtree_size(id) terminates and returns the number of proper
\* descendants of id (0 for a leaf or an unknown id), and subtree_size(root)
\* is len() - 1 when every message is reachable from the root.
C40_SubtreeSizeCountsDescendants ==
    IsSome(size_call)
    => LET t == Unwrap(tree)
           id == Unwrap(size_call).id
           result == Unwrap(size_call).result
       IN /\ result[1] = "ok"
          /\ result[2] = Cardinality(Descendants(t, id))
          /\ (\/ TreeChildren(t, id) = None
              \/ TreeChildren(t, id) = Some(<<>>)) => result[2] = 0
          /\ (/\ id = t.root
              /\ \A m \in DOMAIN t.msgs :
                     ReachesRoot(t, m, Cardinality(DOMAIN t.msgs)))
             => result[2] = Cardinality(DOMAIN t.msgs) - 1

====
